---------------------------- MODULE Spec2Model ----------------------------
(***************************************************************************)
(* A model of the DNS server of bitsexplained/dns: the 512-byte packet     *)
(* buffer (src/src/buffer/buffer.rs, duplicated in src/src/main.rs), the   *)
(* name codec, the header / question / record / packet codecs and the      *)
(* request handler of src/src/main.rs.                                     *)
(*                                                                         *)
(* Bytes are integers 0..255, strings are sequences of Unicode code        *)
(* points.  A buffer value is a record [buf, pos, ok, err, val]: buf and   *)
(* pos are the fields of BytePacketBuffer, ok/err carry the Result of the  *)
(* calls made so far (Rust's `?` makes every later call of the same        *)
(* function a no-op once one has failed) and val is the value returned by  *)
(* the last call.                                                          *)
(***************************************************************************)
EXTENDS Integers, Sequences, FiniteSets, TLC

VARIABLES
  \* one call of read_qname, iteration by iteration
  rq_pc,      \* "idle" before the call, "loop" inside the loop, "returned" after
  rq,         \* the locals of the call (self is the buffer)
  rq_in,      \* the buffer content and the cursor the call started from
  followed,   \* the number of pointers the call has followed
  first_ptr,  \* the offset of the first pointer followed, -1 if none
  zero_at,    \* the offset of the zero length byte that ended the name, -1 if none
  iters       \* the number of loop iterations run

qnameVars == <<rq_pc, rq, rq_in, followed, first_ptr, zero_at, iters>>

VARIABLES
  \* a name written with write_qname and read back with read_qname
  nm_pc,      \* "idle", then "written", then "read"
  nm_in,      \* the name, the cursor and the content of the buffer before the write
  nm_w,       \* the buffer after write_qname
  nm_r        \* the buffer after read_qname (val is the string read)

nameVars == <<nm_pc, nm_in, nm_w, nm_r>>

VARIABLES
  \* a QueryType taken through to_num and from_num
  qt_pc,      \* "idle", then "num", then "back"
  qt,         \* the QueryType value
  qt_num,     \* qt.to_num()
  qt_back     \* QueryType::from_num(qt_num)

qtVars == <<qt_pc, qt, qt_num, qt_back>>

VARIABLES
  \* a packet written with DnsPacket::write
  pk_pc,      \* "idle", then "written"
  pk_in,      \* the packet
  pk_out      \* the buffer after the write

pktVars == <<pk_pc, pk_in, pk_out>>

VARIABLES
  \* the server: main and handle_query
  pc,         \* where main is: "start", "recv", "lookup", "await", "respond", "exited"
  src,        \* the source address of the request being handled
  request,    \* the request as decoded by DnsPacket::from_buffer
  question,   \* the question popped from the request
  packet,     \* the reply under construction
  upstream,   \* the datagrams lookup has sent to the upstream server
  replies,    \* the datagrams sent to the client for the request being handled
  written,    \* the packets passed to DnsPacket::write for this request
  outcome,    \* what happened to the request being handled, and how handle_query returned
  handled,    \* the number of calls of handle_query that have returned
  logged      \* the number of errors main has printed

srvVars ==
  <<pc, src, request, question, packet, upstream, replies, written, outcome, handled, logged>>

VARIABLES
  \* one BytePacketBuffer and the calls made on it, one after the other
  buffer,     \* the fields buf and pos of the buffer
  calls,      \* the number of calls made
  last        \* the last call made and whether it returned Ok

bufVars == <<buffer, calls, last>>

VARIABLES
  \* a header or a record written with its write and read back with its read
  cd_pc,      \* "idle", then "written", then "read"
  cd_in,      \* the value written, the cursor and the content of the buffer before
  cd_w,       \* the buffer after the write
  cd_r        \* the buffer after the read (val is the value read)

codecVars == <<cd_pc, cd_in, cd_w, cd_r>>

VARIABLES
  \* one call of recursive_lookup and the calls nested in it
  rs_stack,       \* the calls of recursive_lookup that have not returned, innermost last
  rs_sockets,     \* the sockets bound to port 42340
  rs_outstanding, \* the queries sent whose reply has not been received
  rs_sent,        \* the last query sent: the server and the datagram
  rs_result       \* what the outermost call returned

resVars == <<rs_stack, rs_sockets, rs_outstanding, rs_sent, rs_result>>

vars == <<qnameVars, nameVars, qtVars, pktVars, srvVars, bufVars, codecVars, resVars>>

\* the variables a scenario leaves alone
notQname == <<nameVars, qtVars, pktVars, srvVars, bufVars, codecVars, resVars>>
notName == <<qnameVars, qtVars, pktVars, srvVars, bufVars, codecVars, resVars>>
notQt == <<qnameVars, nameVars, pktVars, srvVars, bufVars, codecVars, resVars>>
notPkt == <<qnameVars, nameVars, qtVars, srvVars, bufVars, codecVars, resVars>>
notSrv == <<qnameVars, nameVars, qtVars, pktVars, bufVars, codecVars, resVars>>

notBuf == <<qnameVars, nameVars, qtVars, pktVars, srvVars, codecVars, resVars>>
notCodec == <<qnameVars, nameVars, qtVars, pktVars, srvVars, bufVars, resVars>>
notRes == <<qnameVars, nameVars, qtVars, pktVars, srvVars, bufVars, codecVars>>

\* the variables of a scenario that is not running
QnameOff ==
  /\ rq_pc = "off" /\ rq = 0 /\ rq_in = 0
  /\ followed = 0 /\ first_ptr = 0 /\ zero_at = 0 /\ iters = 0

NameOff == nm_pc = "off" /\ nm_in = 0 /\ nm_w = 0 /\ nm_r = 0

QtOff == qt_pc = "off" /\ qt = 0 /\ qt_num = 0 /\ qt_back = 0

PktOff == pk_pc = "off" /\ pk_in = 0 /\ pk_out = 0

SrvOff ==
  /\ pc = "off" /\ src = 0 /\ request = 0 /\ question = 0 /\ packet = 0
  /\ upstream = 0 /\ replies = 0 /\ written = 0 /\ outcome = 0 /\ handled = 0
  /\ logged = 0

BufOff == buffer = 0 /\ calls = 0 /\ last = 0

CodecOff == cd_pc = "off" /\ cd_in = 0 /\ cd_w = 0 /\ cd_r = 0

ResOff ==
  rs_stack = 0 /\ rs_sockets = 0 /\ rs_outstanding = 0 /\ rs_sent = 0 /\ rs_result = 0

\* ------------------------------------------------------------------------
\* Bit arithmetic on unsigned integers
\* ------------------------------------------------------------------------

\* The operands are u8 and u16 values: 16 bits, taken four at a time.

\* bit i of x
Bit(x, i) == (x \div (2 ^ i)) % 2

\* bits i .. i + 3 of a & b
And4(a, b, i) ==
  Bit(a, i) * Bit(b, i) * (2 ^ i)
  + Bit(a, i + 1) * Bit(b, i + 1) * (2 ^ (i + 1))
  + Bit(a, i + 2) * Bit(b, i + 2) * (2 ^ (i + 2))
  + Bit(a, i + 3) * Bit(b, i + 3) * (2 ^ (i + 3))

\* a & b
BitAnd(a, b) ==
  IF a = 0 \/ b = 0 THEN 0
  ELSE And4(a, b, 0) + And4(a, b, 4) + And4(a, b, 8) + And4(a, b, 12)

\* bit i of a | b, in place
Or1(a, b, i) == IF Bit(a, i) + Bit(b, i) > 0 THEN 2 ^ i ELSE 0

\* bits i .. i + 3 of a | b
Or4(a, b, i) == Or1(a, b, i) + Or1(a, b, i + 1) + Or1(a, b, i + 2) + Or1(a, b, i + 3)

\* a | b
BitOr(a, b) ==
  IF a = 0 THEN b
  ELSE IF b = 0 THEN a
  ELSE Or4(a, b, 0) + Or4(a, b, 4) + Or4(a, b, 8) + Or4(a, b, 12)

\* bit i of a ^ b, in place
Xor1(a, b, i) == ((Bit(a, i) + Bit(b, i)) % 2) * (2 ^ i)

\* bits i .. i + 3 of a ^ b
Xor4(a, b, i) == Xor1(a, b, i) + Xor1(a, b, i + 1) + Xor1(a, b, i + 2) + Xor1(a, b, i + 3)

\* a ^ b
BitXor(a, b) ==
  IF a = 0 THEN b
  ELSE IF b = 0 THEN a
  ELSE Xor4(a, b, 0) + Xor4(a, b, 4) + Xor4(a, b, 8) + Xor4(a, b, 12)

\* x << n and x >> n on a w-bit unsigned integer
Shl(x, n, w) == (x * (2 ^ n)) % (2 ^ w)
Shr(x, n) == x \div (2 ^ n)

\* `x as u8`
AsU8(x) == x % 256

\* ------------------------------------------------------------------------
\* BytePacketBuffer
\* ------------------------------------------------------------------------

\* buf: [u8; 512]
BufSize == 512

EndOfBuffer == "End of buffer"
LabelTooLong == "Label is too long and exceeds 63 characters"
JumpLimit == "Limit of 5 jumps exceeded"

\* BytePacketBuffer::new
BytePacketBuffer_new ==
  [buf |-> [i \in 0 .. BufSize - 1 |-> 0], pos |-> 0, ok |-> TRUE, err |-> "", val |-> 0]

\* a buffer holding the bytes `content` (recv_from writes into buf), cursor at p
BufferOf(content, p) ==
  [buf |-> content, pos |-> p, ok |-> TRUE, err |-> "", val |-> 0]

\* return Err(e.into())
Fail(r, e) == [r EXCEPT !.ok = FALSE, !.err = e]

\* BytePacketBuffer::step
step(r, steps) ==
  IF ~r.ok THEN r ELSE [r EXCEPT !.pos = r.pos + steps]

\* BytePacketBuffer::seek
seek(r, p) ==
  IF ~r.ok THEN r ELSE [r EXCEPT !.pos = p]

\* BytePacketBuffer::read
read(r) ==
  IF ~r.ok THEN r
  ELSE IF r.pos >= BufSize THEN Fail(r, EndOfBuffer)
  ELSE [r EXCEPT !.val = r.buf[r.pos], !.pos = r.pos + 1]

\* BytePacketBuffer::get
get(r, p) ==
  IF ~r.ok THEN r
  ELSE IF p >= BufSize THEN Fail(r, EndOfBuffer)
  ELSE [r EXCEPT !.val = r.buf[p]]

\* BytePacketBuffer::get_range
get_range(r, start, len) ==
  IF ~r.ok THEN r
  ELSE IF start + len > BufSize THEN Fail(r, EndOfBuffer)
  ELSE [r EXCEPT !.val = [i \in 1 .. len |-> r.buf[start + i - 1]]]

\* BytePacketBuffer::read_u16
read_u16(r) ==
  LET r1 == read(r)
      r2 == read(r1)
  IN  IF ~r1.ok THEN r1
      ELSE IF ~r2.ok THEN r2
      ELSE [r2 EXCEPT !.val = BitOr(Shl(r1.val, 8, 16), r2.val)]

\* BytePacketBuffer::read_u32.  A u32 is held as its four bytes, the most
\* significant first: <<b1, b2, b3, b4>> is b1 << 24 | b2 << 16 | b3 << 8 | b4.
read_u32(r) ==
  LET r1 == read(r)
      r2 == read(r1)
      r3 == read(r2)
      r4 == read(r3)
  IN  IF ~r1.ok THEN r1
      ELSE IF ~r2.ok THEN r2
      ELSE IF ~r3.ok THEN r3
      ELSE IF ~r4.ok THEN r4
      ELSE [r4 EXCEPT !.val = <<r1.val, r2.val, r3.val, r4.val>>]

\* BytePacketBuffer::write
write(r, byte) ==
  IF ~r.ok THEN r
  ELSE IF r.pos >= BufSize THEN Fail(r, EndOfBuffer)
  ELSE [r EXCEPT !.buf[r.pos] = byte, !.pos = r.pos + 1]

\* self.write(b1)?; self.write(b2)?; .. for the bytes b1, b2, .. in turn, as in
\* for byte in label.as_bytes() { self.write(*byte)?; }
\* Each write stores one byte at pos and advances pos, and the first write
\* at pos >= 512 returns Err: the loop stores the first `n` bytes, as many
\* as there is room for, and fails if that is not all of them.
write_all(r, bytes) ==
  IF ~r.ok \/ bytes = <<>> THEN r
  ELSE LET room == IF r.pos >= BufSize THEN 0 ELSE BufSize - r.pos
           n == IF Len(bytes) <= room THEN Len(bytes) ELSE room
           w == [r EXCEPT !.buf = [i \in 0 .. BufSize - 1 |->
                                     IF i >= r.pos /\ i < r.pos + n
                                     THEN bytes[i - r.pos + 1] ELSE r.buf[i]],
                          !.pos = r.pos + n]
       IN  IF n < Len(bytes) THEN Fail(w, EndOfBuffer) ELSE w

\* BytePacketBuffer::write_u8
write_u8(r, byte) == write(r, byte)

\* BytePacketBuffer::write_u16
write_u16(r, v) == write_all(r, <<AsU8(Shr(v, 8)), AsU8(BitAnd(v, 255))>>)

\* BytePacketBuffer::write_u32
write_u32(r, v) == write_all(r, <<v[1], v[2], v[3], v[4]>>)

\* the u32 of a number below 2^31
U32(n) == <<(n \div 16777216) % 256, (n \div 65536) % 256, (n \div 256) % 256, n % 256>>

\* BytePacketBuffer::set.  buf[pos] with pos >= 512 panics (index out of
\* bounds): the panic is the failure "panic".
set(r, p, v) ==
  IF ~r.ok THEN r
  ELSE IF p >= BufSize THEN Fail(r, "panic")
  ELSE [r EXCEPT !.buf[p] = v]

\* BytePacketBuffer::set_u16
set_u16(r, p, v) == set(set(r, p, AsU8(Shr(v, 8))), p + 1, AsU8(BitAnd(v, 255)))

\* ------------------------------------------------------------------------
\* Strings
\* ------------------------------------------------------------------------

\* U+FFFD, the replacement character of String::from_utf8_lossy
Replacement == 65533

\* The bytes the model feeds to from_utf8_lossy: no UTF-8 continuation byte
\* (0x80..0xBF) occurs in them, so no multi-byte sequence is well formed and
\* every byte >= 0xC0 is an ill-formed sequence of length one.
IsModelByte(b) == b \in 0 .. 127 \/ b \in 192 .. 255

\* String::from_utf8_lossy on such bytes
from_utf8_lossy(bytes) ==
  [i \in 1 .. Len(bytes) |-> IF bytes[i] < 128 THEN bytes[i] ELSE Replacement]

\* char::to_lowercase on ASCII and on U+FFFD
LowerChar(c) == IF c >= 65 /\ c <= 90 THEN c + 32 ELSE c

\* str::to_lowercase
to_lowercase(s) == [i \in 1 .. Len(s) |-> LowerChar(s[i])]

\* the UTF-8 encoding of one code point (str::as_bytes, str::len)
Utf8(c) ==
  IF c < 128 THEN <<c>>
  ELSE IF c < 2048 THEN <<192 + (c \div 64), 128 + (c % 64)>>
  ELSE <<224 + (c \div 4096), 128 + ((c \div 64) % 64), 128 + (c % 64)>>

\* str::as_bytes: an ASCII string is its own encoding
RECURSIVE as_bytes(_)
as_bytes(s) ==
  IF \A i \in 1 .. Len(s) : s[i] < 128 THEN s
  ELSE Utf8(Head(s)) \o as_bytes(Tail(s))

\* '.'
Dot == 46

\* str::split('.'): the labels between the dots; "" splits into one empty label
RECURSIVE split(_)
split(s) ==
  IF \E i \in 1 .. Len(s) : s[i] = Dot
  THEN LET i == CHOOSE k \in 1 .. Len(s) : s[k] = Dot /\ \A j \in 1 .. k - 1 : s[j] # Dot
       IN  <<SubSeq(s, 1, i - 1)>> \o split(SubSeq(s, i + 1, Len(s)))
  ELSE <<s>>

\* ------------------------------------------------------------------------
\* read_qname
\* ------------------------------------------------------------------------

\* let max_jumps = 5
max_jumps == 5

\* The locals of read_qname on entry: self is the buffer, outstr the caller's
\* string; done is set by a return or by the break of the loop.
read_qname_enter(r, outstr) ==
  [self |-> r, qname_pos |-> r.pos, jumped |-> FALSE, jumps_performed |-> 0,
   delimiter |-> <<>>, outstr |-> outstr, done |-> ~r.ok]

\* if !jumped { self.seek(qname_pos)?; } Ok(())  -- the code after the loop
read_qname_exit(q) ==
  [q EXCEPT !.self = IF ~q.jumped THEN seek(q.self, q.qname_pos) ELSE q.self,
            !.done = TRUE]

\* a >= for the > of the guard
jump_limit_exceeded_ge(jumps_performed) == jumps_performed >= max_jumps

\* a guard that never fires
jump_limit_exceeded_never(jumps_performed) == FALSE

\* if jumps_performed > max_jumps
jump_limit_exceeded(jumps_performed) == jumps_performed > max_jumps

\* the seek done at every jump
first_jump_seek_always(r, jumped, qname_pos) == seek(r, qname_pos + 2)

\* if !jumped { self.seek(qname_pos + 2)?; }
first_jump_seek(r, jumped, qname_pos) ==
  IF ~jumped THEN seek(r, qname_pos + 2) ELSE r

\* One iteration of the loop of read_qname (the break runs the code after the
\* loop too).
read_qname_iter(q) ==
  IF jump_limit_exceeded(q.jumps_performed)
  THEN [q EXCEPT !.self = Fail(q.self, JumpLimit), !.done = TRUE]
  ELSE
    LET l == get(q.self, q.qname_pos)
        len == l.val
    IN
    IF ~l.ok THEN [q EXCEPT !.self = l, !.done = TRUE]
    ELSE IF BitAnd(len, 192) = 192
    THEN
      LET s1 == first_jump_seek(l, q.jumped, q.qname_pos)
          g2 == get(s1, q.qname_pos + 1)
          offset == BitOr(Shl(BitXor(len, 192), 8, 16), g2.val)
      IN
      IF ~g2.ok THEN [q EXCEPT !.self = g2, !.done = TRUE]
      ELSE [q EXCEPT !.self = g2, !.qname_pos = offset, !.jumped = TRUE,
                     !.jumps_performed = q.jumps_performed + 1]
    ELSE
      IF len = 0
      THEN read_qname_exit([q EXCEPT !.self = l, !.qname_pos = q.qname_pos + 1])
      ELSE
        LET gr == get_range(l, q.qname_pos + 1, len)
            pushed == q.outstr \o q.delimiter
        IN
        IF ~gr.ok
        THEN [q EXCEPT !.self = gr, !.qname_pos = q.qname_pos + 1,
                       !.outstr = pushed, !.done = TRUE]
        ELSE [q EXCEPT !.self = gr,
                       !.outstr = pushed \o to_lowercase(from_utf8_lossy(gr.val)),
                       !.delimiter = <<Dot>>,
                       !.qname_pos = q.qname_pos + 1 + len]

RECURSIVE read_qname_loop(_)
read_qname_loop(q) == IF q.done THEN q ELSE read_qname_loop(read_qname_iter(q))

\* BytePacketBuffer::read_qname: the buffer after the call, val the string
read_qname(r, outstr) ==
  IF ~r.ok THEN r
  ELSE LET q == read_qname_loop(read_qname_enter(r, outstr))
       IN  [q.self EXCEPT !.val = q.outstr]

\* ------------------------------------------------------------------------
\* write_qname
\* ------------------------------------------------------------------------

\* the body of the loop over the labels
write_label(r, label) ==
  LET len == Len(as_bytes(label))
  IN  IF ~r.ok THEN r
      ELSE IF len > 63 THEN Fail(r, LabelTooLong)
      ELSE write_all(write_u8(r, AsU8(len)), as_bytes(label))

RECURSIVE write_labels(_, _)
write_labels(r, labels) ==
  IF ~r.ok \/ labels = <<>> THEN r
  ELSE write_labels(write_label(r, Head(labels)), Tail(labels))

\* BytePacketBuffer::write_qname
write_qname(r, q_name) == write_u8(write_labels(r, split(q_name)), 0)

\* ------------------------------------------------------------------------
\* ResultCode and QueryType
\* ------------------------------------------------------------------------

\* ResultCode::from_num
ResultCode_from_num(num) ==
  CASE num = 1 -> "FORMERR"
    [] num = 2 -> "SERVFAIL"
    [] num = 3 -> "NXDOMAIN"
    [] num = 4 -> "NOTIMP"
    [] num = 5 -> "REFUSED"
    [] OTHER -> "NOERROR"

\* `rescode as u8`: the discriminants of enum ResultCode
ResultCode_as_u8(c) ==
  CASE c = "NOERROR" -> 0
    [] c = "FORMERR" -> 1
    [] c = "SERVFAIL" -> 2
    [] c = "NXDOMAIN" -> 3
    [] c = "NOTIMP" -> 4
    [] c = "REFUSED" -> 5

QueryType_A == [tag |-> "A", num |-> 0]
QueryType_NS == [tag |-> "NS", num |-> 0]
QueryType_CNAME == [tag |-> "CNAME", num |-> 0]
QueryType_MX == [tag |-> "MX", num |-> 0]
QueryType_AAAA == [tag |-> "AAAA", num |-> 0]
QueryType_UNKNOWN(x) == [tag |-> "UNKNOWN", num |-> x]

\* QueryType::to_num
to_num(q) ==
  CASE q.tag = "UNKNOWN" -> q.num
    [] q.tag = "A" -> 1
    [] q.tag = "NS" -> 2
    [] q.tag = "CNAME" -> 5
    [] q.tag = "MX" -> 15
    [] q.tag = "AAAA" -> 28

\* from_num without the arm of AAAA
from_num_no_aaaa(num) ==
  CASE num = 1 -> QueryType_A
    [] num = 2 -> QueryType_NS
    [] num = 5 -> QueryType_CNAME
    [] num = 15 -> QueryType_MX
    [] OTHER -> QueryType_UNKNOWN(num)

\* QueryType::from_num
from_num(num) ==
  CASE num = 1 -> QueryType_A
    [] num = 2 -> QueryType_NS
    [] num = 5 -> QueryType_CNAME
    [] num = 15 -> QueryType_MX
    [] num = 28 -> QueryType_AAAA
    [] OTHER -> QueryType_UNKNOWN(num)

\* ------------------------------------------------------------------------
\* DnsHeader
\* ------------------------------------------------------------------------

\* `b as u8` of a bool
B2I(b) == IF b THEN 1 ELSE 0

\* DnsHeader::new
DnsHeader_new ==
  [id |-> 0,
   recursion_desired |-> FALSE, truncated_message |-> FALSE,
   authoritative_answer |-> FALSE, opcode |-> 0, response |-> FALSE,
   rescode |-> "NOERROR", checking_disabled |-> FALSE, authed_data |-> FALSE,
   z |-> FALSE, recursion_available |-> FALSE,
   questions |-> 0, answers |-> 0, authoritative_entries |-> 0, resource_entries |-> 0]

\* DnsHeader::read: val is the header read
DnsHeader_read(r) ==
  LET r1 == read_u16(r)
      r2 == read_u16(r1)
      a == AsU8(Shr(r2.val, 8))
      b == AsU8(BitAnd(r2.val, 255))
      r3 == read_u16(r2)
      r4 == read_u16(r3)
      r5 == read_u16(r4)
      r6 == read_u16(r5)
  IN  IF ~r1.ok THEN r1
      ELSE IF ~r2.ok THEN r2
      ELSE IF ~r3.ok THEN r3
      ELSE IF ~r4.ok THEN r4
      ELSE IF ~r5.ok THEN r5
      ELSE IF ~r6.ok THEN r6
      ELSE [r6 EXCEPT !.val =
             [id |-> r1.val,
              recursion_desired |-> BitAnd(a, 1) > 0,
              truncated_message |-> BitAnd(a, 2) > 0,
              authoritative_answer |-> BitAnd(a, 4) > 0,
              opcode |-> BitAnd(Shr(a, 3), 15),
              response |-> BitAnd(a, 128) > 0,
              rescode |-> ResultCode_from_num(BitAnd(b, 15)),
              checking_disabled |-> BitAnd(b, 16) > 0,
              authed_data |-> BitAnd(b, 32) > 0,
              z |-> BitAnd(b, 64) > 0,
              recursion_available |-> BitAnd(b, 128) > 0,
              questions |-> r3.val,
              answers |-> r4.val,
              authoritative_entries |-> r5.val,
              resource_entries |-> r6.val]]

\* the response bit one place lower
FlagsA_response_at_6(h) ==
  BitOr(BitOr(BitOr(BitOr(B2I(h.recursion_desired),
                          Shl(B2I(h.truncated_message), 1, 8)),
                    Shl(B2I(h.authoritative_answer), 2, 8)),
              Shl(h.opcode, 3, 8)),
        Shl(B2I(h.response), 6, 8))

\* the first flags byte DnsHeader::write writes
FlagsA(h) ==
  BitOr(BitOr(BitOr(BitOr(B2I(h.recursion_desired),
                          Shl(B2I(h.truncated_message), 1, 8)),
                    Shl(B2I(h.authoritative_answer), 2, 8)),
              Shl(h.opcode, 3, 8)),
        Shl(B2I(h.response), 7, 8))

\* the z bit left out
FlagsB_without_z(h) ==
  BitOr(BitOr(BitOr(ResultCode_as_u8(h.rescode),
                    Shl(B2I(h.checking_disabled), 4, 8)),
              Shl(B2I(h.authed_data), 5, 8)),
        Shl(B2I(h.recursion_available), 7, 8))

\* the second flags byte DnsHeader::write writes
FlagsB(h) ==
  BitOr(BitOr(BitOr(BitOr(ResultCode_as_u8(h.rescode),
                          Shl(B2I(h.checking_disabled), 4, 8)),
                    Shl(B2I(h.authed_data), 5, 8)),
              Shl(B2I(h.z), 6, 8)),
        Shl(B2I(h.recursion_available), 7, 8))

\* DnsHeader::write
DnsHeader_write(h, r) ==
  LET r1 == write_u16(r, h.id)
      r2 == write_u8(r1, FlagsA(h))
      r3 == write_u8(r2, FlagsB(h))
      r4 == write_u16(r3, h.questions)
      r5 == write_u16(r4, h.answers)
      r6 == write_u16(r5, h.authoritative_entries)
  IN  IF ~r1.ok THEN r1
      ELSE IF ~r2.ok THEN r2
      ELSE IF ~r3.ok THEN r3
      ELSE IF ~r4.ok THEN r4
      ELSE IF ~r5.ok THEN r5
      ELSE IF ~r6.ok THEN r6
      ELSE write_u16(r6, h.resource_entries)

\* ------------------------------------------------------------------------
\* DnsQuestion
\* ------------------------------------------------------------------------

\* DnsQuestion::new
DnsQuestion_new(name, question_type) == [name |-> name, question_type |-> question_type]

\* DnsQuestion::read once the name is read: the type, then the class
question_after_name(r1) ==
  LET r2 == read_u16(r1)
      r3 == read_u16(r2)
  IN  IF ~r1.ok THEN r1
      ELSE IF ~r2.ok THEN r2
      ELSE IF ~r3.ok THEN r3
      ELSE [r3 EXCEPT !.val = [name |-> r1.val, question_type |-> from_num(r2.val)]]

\* DnsQuestion::read into the question `q`: val is the question read
DnsQuestion_read(q, r) == question_after_name(read_qname(r, q.name))

\* DnsQuestion::write
DnsQuestion_write(q, r) ==
  write_u16(write_u16(write_qname(r, q.name), to_num(q.question_type)), 1)

\* ------------------------------------------------------------------------
\* DnsRecord
\* ------------------------------------------------------------------------

\* Ipv4Addr::new from the four bytes of raw_addr
Ipv4OfRaw(raw) == <<raw[1], raw[2], raw[3], raw[4]>>

\* the two segments of an Ipv6Addr held by one u32
Ipv6Pair(raw) == <<BitOr(Shl(raw[1], 8, 16), raw[2]), BitOr(Shl(raw[3], 8, 16), raw[4])>>

\* Ok(DnsRecord::NS { .. }) and Ok(DnsRecord::CNAME { .. }), `n` the host name read
record_host(tag, domain, ttl, n) ==
  IF ~n.ok THEN n
  ELSE [n EXCEPT !.val = [tag |-> tag, domain |-> domain, host |-> n.val, ttl |-> ttl]]

\* Ok(DnsRecord::MX { .. }), `n` the host name read
record_mx(domain, priority, ttl, n) ==
  IF ~n.ok THEN n
  ELSE [n EXCEPT !.val = [tag |-> "MX", domain |-> domain, priority |-> priority,
                          host |-> n.val, ttl |-> ttl]]

\* the MX arm: the priority `p` read, then the host name
record_mx_host(domain, ttl, p) ==
  IF ~p.ok THEN p ELSE record_mx(domain, p.val, ttl, read_qname(p, <<>>))

\* the match on qtype of DnsRecord::read, `r5` the buffer with data_len read
record_data(domain, qtype_num, ttl, r5) ==
  LET qtype == from_num(qtype_num)
      data_len == r5.val
  IN
  IF ~r5.ok THEN r5
  ELSE
    CASE qtype.tag = "A" ->
           LET a == read_u32(r5)
           IN  IF ~a.ok THEN a
               ELSE [a EXCEPT !.val = [tag |-> "A", domain |-> domain,
                                       addr |-> Ipv4OfRaw(a.val), ttl |-> ttl]]
      [] qtype.tag \in {"NS", "CNAME"} ->
           record_host(qtype.tag, domain, ttl, read_qname(r5, <<>>))
      [] qtype.tag = "MX" ->
           record_mx_host(domain, ttl, read_u16(r5))
      [] qtype.tag = "AAAA" ->
           LET a1 == read_u32(r5)
               a2 == read_u32(a1)
               a3 == read_u32(a2)
               a4 == read_u32(a3)
           IN  IF ~a1.ok THEN a1
               ELSE IF ~a2.ok THEN a2
               ELSE IF ~a3.ok THEN a3
               ELSE IF ~a4.ok THEN a4
               ELSE [a4 EXCEPT !.val =
                       [tag |-> "AAAA", domain |-> domain,
                        addr |-> Ipv6Pair(a1.val) \o Ipv6Pair(a2.val)
                                 \o Ipv6Pair(a3.val) \o Ipv6Pair(a4.val),
                        ttl |-> ttl]]
      [] qtype.tag = "UNKNOWN" ->
           LET s == step(r5, data_len)
           IN  [s EXCEPT !.val = [tag |-> "UNKNOWN", domain |-> domain,
                                  qtype |-> qtype_num, data_len |-> data_len, ttl |-> ttl]]

\* DnsRecord::read once the domain is read: qtype, the class, ttl and data_len
record_after_domain(r1) ==
  LET r2 == read_u16(r1)
      r3 == read_u16(r2)
      r4 == read_u32(r3)
  IN  IF ~r1.ok THEN r1
      ELSE IF ~r2.ok THEN r2
      ELSE IF ~r3.ok THEN r3
      ELSE IF ~r4.ok THEN r4
      ELSE record_data(r1.val, r2.val, r4.val, read_u16(r4))

\* DnsRecord::read: val is the record read
DnsRecord_read(r) == record_after_domain(read_qname(r, <<>>))

\* qname, qtype, class 1 and ttl: what every arm of DnsRecord::write starts with
RecordPrefix(r, domain, qtype, ttl) ==
  write_u32(write_u16(write_u16(write_qname(r, domain), to_num(qtype)), 1), ttl)

\* the size counted from pos, the two bytes of the length included
PatchLength_from_pos(r, pos) ==
  IF ~r.ok THEN r ELSE set_u16(r, pos, (r.pos - pos) % 65536)

\* let size = buffer.pos() - (pos + 2); buffer.set_u16(pos, size as u16)?
PatchLength(r, pos) ==
  IF ~r.ok THEN r ELSE set_u16(r, pos, (r.pos - (pos + 2)) % 65536)

\* for octet in &addr.segments() { buffer.write_u16(*octet)?; }
RECURSIVE write_segments(_, _)
write_segments(r, segs) ==
  IF ~r.ok \/ segs = <<>> THEN r ELSE write_segments(write_u16(r, Head(segs)), Tail(segs))

\* buffer.write_u16(0)?; buffer.write_qname(host)?; and the length patched:
\* the NS and CNAME arms after the prefix `h`
write_host(h, host) == PatchLength(write_qname(write_u16(h, 0), host), h.pos)

\* the MX arm after the prefix `h`: the priority comes before the host
write_mx(h, priority, host) ==
  PatchLength(write_qname(write_u16(write_u16(h, 0), priority), host), h.pos)

\* the match on *self of DnsRecord::write
record_written(rec, r) ==
  CASE rec.tag = "A" ->
         write_u8(write_u8(write_u8(write_u8(
           write_u16(RecordPrefix(r, rec.domain, QueryType_A, rec.ttl), 4),
           rec.addr[1]), rec.addr[2]), rec.addr[3]), rec.addr[4])
    [] rec.tag = "NS" ->
         write_host(RecordPrefix(r, rec.domain, QueryType_NS, rec.ttl), rec.host)
    [] rec.tag = "MX" ->
         write_mx(RecordPrefix(r, rec.domain, QueryType_MX, rec.ttl), rec.priority, rec.host)
    [] rec.tag = "CNAME" ->
         write_host(RecordPrefix(r, rec.domain, QueryType_CNAME, rec.ttl), rec.host)
    [] rec.tag = "AAAA" ->
         write_segments(write_u16(RecordPrefix(r, rec.domain, QueryType_AAAA, rec.ttl), 16),
                        rec.addr)
    [] rec.tag = "UNKNOWN" -> r

\* Ok(buffer.pos() - start_pos), `w` the buffer written
bytes_written(start_pos, w) ==
  IF ~w.ok THEN w ELSE [w EXCEPT !.val = w.pos - start_pos]

\* DnsRecord::write: val is the number of bytes written
DnsRecord_write(rec, r) == bytes_written(r.pos, record_written(rec, r))

\* ------------------------------------------------------------------------
\* DnsPacket
\* ------------------------------------------------------------------------

\* DnsPacket::new
DnsPacket_new ==
  [header |-> DnsHeader_new, questions |-> <<>>, answers |-> <<>>,
   authorities |-> <<>>, resources |-> <<>>]

RECURSIVE read_questions(_, _, _)
\* question.read(buffer)?; result.questions.push(question): `q` the question read
push_question(q, n, acc) ==
  IF ~q.ok THEN q ELSE read_questions(q, n - 1, Append(acc, q.val))

\* for _ in 0..n { question.read(buffer)?; result.questions.push(question); }
\* val is the vector with the questions read pushed
read_questions(r, n, acc) ==
  IF ~r.ok THEN r
  ELSE IF n = 0 THEN [r EXCEPT !.val = acc]
  ELSE push_question(DnsQuestion_read(DnsQuestion_new(<<>>, QueryType_UNKNOWN(0)), r), n, acc)

RECURSIVE read_records(_, _, _)
\* let rec = DnsRecord::read(buffer)?; section.push(rec): `rec` the record read
push_record(rec, n, acc) ==
  IF ~rec.ok THEN rec ELSE read_records(rec, n - 1, Append(acc, rec.val))

\* for _ in 0..n { let rec = DnsRecord::read(buffer)?; section.push(rec); }
read_records(r, n, acc) ==
  IF ~r.ok THEN r
  ELSE IF n = 0 THEN [r EXCEPT !.val = acc]
  ELSE push_record(DnsRecord_read(r), n, acc)

\* Ok(result) of DnsPacket::from_buffer, `re` the buffer with the last section read
packet_read(h, qs, an, au, re) ==
  IF ~re.ok THEN re
  ELSE [re EXCEPT !.val = [header |-> h.val, questions |-> qs.val, answers |-> an.val,
                           authorities |-> au.val, resources |-> re.val]]

\* the three record sections of DnsPacket::from_buffer, in order
read_resources(h, qs, an, au) ==
  packet_read(h, qs, an, au, read_records(au, h.val.resource_entries, <<>>))

read_authorities(h, qs, an) ==
  read_resources(h, qs, an, read_records(an, h.val.authoritative_entries, <<>>))

read_answers(h, qs) ==
  read_authorities(h, qs, read_records(qs, h.val.answers, <<>>))

\* DnsPacket::from_buffer once the header `h` is read
read_sections(h) ==
  IF ~h.ok THEN h ELSE read_answers(h, read_questions(h, h.val.questions, <<>>))

\* DnsPacket::from_buffer: val is the packet read
DnsPacket_from_buffer(r) == read_sections(DnsHeader_read(r))

\* for question in &self.questions { question.write(buffer)?; }
RECURSIVE write_questions(_, _)
write_questions(qs, r) ==
  IF ~r.ok \/ qs = <<>> THEN r
  ELSE write_questions(Tail(qs), DnsQuestion_write(Head(qs), r))

\* for rec in &section { rec.write(buffer)?; }
RECURSIVE write_records(_, _)
write_records(recs, r) ==
  IF ~r.ok \/ recs = <<>> THEN r
  ELSE write_records(Tail(recs), DnsRecord_write(Head(recs), r))

\* DnsPacket::write
DnsPacket_write(p, r) ==
  LET h == DnsHeader_write(p.header, r)
      qs == write_questions(p.questions, h)
      an == write_records(p.answers, qs)
      au == write_records(p.authorities, an)
  IN  write_records(p.resources, au)

\* ------------------------------------------------------------------------
\* Buffer contents for the decoders
\* ------------------------------------------------------------------------

Zeros == [i \in 0 .. BufSize - 1 |-> 0]

\* content with the bytes `bytes` stored from offset `off` on
Put(content, off, bytes) ==
  [i \in 0 .. BufSize - 1 |->
     IF i >= off /\ i < off + Len(bytes) THEN bytes[i - off + 1] ELSE content[i]]

\* the two bytes of a compression pointer to `target`
Ptr(target) == <<192 + (target \div 256), target % 256>>

\* 3www7example3com0
WwwExampleCom ==
  <<3, 119, 119, 119, 7, 101, 120, 97, 109, 112, 108, 101, 3, 99, 111, 109, 0>>

\* "www.example.com"
WwwExampleComStr ==
  <<119, 119, 119, Dot, 101, 120, 97, 109, 112, 108, 101, Dot, 99, 111, 109>>

\* www.example.com at 0..16 and a pointer to 0 at offset 20
ExampleContent == Put(Put(Zeros, 0, WwwExampleCom), 20, Ptr(0))

\* C0 02 C0 00 at offset 0: two pointers that point at each other
CycleContent == Put(Zeros, 0, <<192, 2, 192, 0>>)

\* k pointers at offsets base, base+2, ..: each points at the next one, the
\* last one at the name 1A0
RECURSIVE ChainBytes(_, _)
ChainBytes(k, at) ==
  IF k = 0 THEN <<1, 65, 0>> ELSE Ptr(at + 2) \o ChainBytes(k - 1, at + 2)

ChainContent(k, base) == Put(Zeros, base, ChainBytes(k, base))

\* k hops, each a label 1B followed by a pointer to the next hop
RECURSIVE HopBytes(_, _)
HopBytes(k, at) ==
  IF k = 0 THEN <<1, 65, 0>> ELSE <<1, 66>> \o Ptr(at + 4) \o HopBytes(k - 1, at + 4)

HopContent(k, base) == Put(Zeros, base, HopBytes(k, base))

\* labels 1a 1a .. over the whole buffer
LabelsContent == [i \in 0 .. BufSize - 1 |-> IF i % 2 = 0 THEN 1 ELSE 97]

\* the same with a pointer back to 0 in the last two bytes
LongCycleContent == Put(LabelsContent, BufSize - 2, Ptr(0))

\* The longest chain of pointers of the contents
MaxChain == 7

\* The contents whose first ExhLen bytes run over all of ExhBytes
ExhLen == 4

ExhBytes == {0, 1, 2, 65, 192, 193}

RECURSIVE Tuples(_, _)
Tuples(n, S) ==
  IF n = 0 THEN {<<>>} ELSE {<<x>> \o t : x \in S, t \in Tuples(n - 1, S)}

EdgeStarts == {0, 1, 2, 20, BufSize - 3, BufSize - 2, BufSize - 1, BufSize, BufSize + 1}

\* The inputs of read_qname: a content and the cursor to start from
QnameInputs ==
  {[content |-> Put(Zeros, 0, t), start |-> c] : t \in Tuples(ExhLen, ExhBytes), c \in 0 .. 2}
  \cup {[content |-> ChainContent(k, b), start |-> b] : k \in 0 .. MaxChain, b \in {0, 300}}
  \cup {[content |-> HopContent(k, 0), start |-> 0] : k \in 0 .. MaxChain}
  \cup {[content |-> c, start |-> p] :
          c \in {ExampleContent, CycleContent, LabelsContent, LongCycleContent,
                 \* a pointer in the last two bytes, and one cut by the end
                 Put(Zeros, BufSize - 2, Ptr(0)), Put(Zeros, BufSize - 1, <<192>>),
                 \* pointers to 512 and to 16383
                 Put(Zeros, 0, Ptr(BufSize)), Put(Zeros, 0, <<255, 255>>),
                 \* a label that runs past the end, one that ends at it
                 Put(Zeros, BufSize - 3, <<5, 97, 97>>), Put(Zeros, BufSize - 3, <<2, 97, 97>>),
                 \* a label of 65 bytes, bytes that are not ASCII in a label
                 Put(Zeros, 0, <<65>>), Put(Zeros, 0, <<2, 200, 255>>)},
          p \in EdgeStarts}

\* ------------------------------------------------------------------------
\* One call of read_qname, iteration by iteration
\* ------------------------------------------------------------------------

QnameInit ==
  /\ rq_in \in QnameInputs
  /\ rq_pc = "idle"
  /\ rq = read_qname_enter(BufferOf(rq_in.content, rq_in.start), <<>>)
  /\ followed = 0
  /\ first_ptr = -1
  /\ zero_at = -1
  /\ iters = 0

\* let mut qname_pos = self.pos(); .. : the call enters its loop
ReadQnameCall ==
  /\ rq_pc = "idle"
  /\ rq_pc' = "loop"
  /\ UNCHANGED <<rq, rq_in, followed, first_ptr, zero_at, iters>>
  /\ UNCHANGED notQname

\* the byte under the local cursor when it is a length byte the call can read
AtByte(q) == IF q.qname_pos < BufSize THEN q.self.buf[q.qname_pos] ELSE -1

\* one iteration of the loop
ReadQnameIter ==
  /\ rq_pc = "loop"
  /\ rq' = read_qname_iter(rq)
  /\ rq_pc' = IF rq'.done THEN "returned" ELSE "loop"
  /\ iters' = iters + 1
  /\ LET ptr == AtByte(rq) >= 192 /\ rq'.self.ok
     IN  /\ followed' = IF ptr THEN followed + 1 ELSE followed
         /\ first_ptr' = IF ptr /\ followed = 0 THEN rq.qname_pos ELSE first_ptr
  /\ zero_at' = IF AtByte(rq) = 0 /\ rq'.self.ok THEN rq.qname_pos ELSE zero_at
  /\ UNCHANGED rq_in
  /\ UNCHANGED notQname

QnameNext == ReadQnameCall \/ ReadQnameIter

InitQname == QnameInit /\ NameOff /\ QtOff /\ PktOff /\ SrvOff /\ BufOff /\ CodecOff /\ ResOff

SpecQname == InitQname /\ [][QnameNext]_vars

\* ------------------------------------------------------------------------
\* Claims about read_qname
\* ------------------------------------------------------------------------

ReadQnameReturned == rq_pc = "returned"

\* C5: a call of read_qname follows at most 6 pointers; it fails with the
\* jump-limit error exactly when it has followed 6, so a name reached through
\* 5 pointers or fewer fails on a bounds violation or not at all; the cycle
\* C0 02 C0 00 read from offset 0 fails with the jump-limit error.
JumpLimitLaw ==
  /\ followed <= max_jumps + 1
  /\ ReadQnameReturned =>
       /\ (followed = max_jumps + 1) <=> (~rq.self.ok /\ rq.self.err = JumpLimit)
       /\ (~rq.self.ok /\ followed <= max_jumps) => rq.self.err = EndOfBuffer
  /\ (ReadQnameReturned /\ rq_in = [content |-> CycleContent, start |-> 0])
       => (~rq.self.ok /\ rq.self.err = JumpLimit)

\* a name decoded through exactly 5 pointers
FiveJumpsDecoded ==
  /\ ReadQnameReturned
  /\ rq.self.ok
  /\ followed = max_jumps
  /\ rq.outstr = <<97>>

\* The most iterations one call can run: between two jumps a label takes at
\* least two bytes of the buffer.
IterBound == (max_jumps + 1) * (BufSize \div 2) + 1

\* C6: read_qname returns after at most IterBound iterations of its loop: it
\* follows at most 6 pointers, and the iterations run are bounded by the
\* pointers followed and the offset reached since the last one (an iteration
\* is enabled in every state of the loop and counts one up, so the call
\* cannot stay in the loop).
ReadQnameBounded ==
  /\ followed <= max_jumps + 1
  /\ iters <= followed * (BufSize \div 2) + (rq.qname_pos \div 2) + 1
  /\ iters <= IterBound
  /\ rq_pc = "loop" => iters < IterBound

\* a call that ran the most iterations and returned
LongestCallReturned ==
  /\ ReadQnameReturned
  /\ iters = IterBound
  /\ followed = max_jumps + 1

\* C7: a successful read_qname leaves the cursor just after the zero length
\* byte when it followed no pointer, and two bytes after the first pointer
\* when it followed one; it never changes a byte of the buffer; the name
\* www.example.com reached through the pointer at 20 is decoded with the
\* cursor left at 22.
CursorAfterName ==
  /\ rq.self.buf = rq_in.content
  /\ (ReadQnameReturned /\ rq.self.ok) =>
       /\ followed = 0 => (zero_at >= 0 /\ rq.self.pos = zero_at + 1)
       /\ followed > 0 => (first_ptr >= 0 /\ rq.self.pos = first_ptr + 2)
  /\ (ReadQnameReturned /\ rq_in = [content |-> ExampleContent, start |-> 20])
       => (rq.self.ok /\ rq.outstr = WwwExampleComStr /\ rq.self.pos = 22)

\* a name decoded through labels and several pointers
SeveralJumpsDecoded ==
  /\ ReadQnameReturned
  /\ rq.self.ok
  /\ followed >= 2
  /\ Len(rq.outstr) >= 3
  /\ rq.self.pos = first_ptr + 2
  /\ rq.qname_pos # rq.self.pos

\* ------------------------------------------------------------------------
\* A name written with write_qname and read back with read_qname
\* ------------------------------------------------------------------------

\* The longest name of NameBytes the scenario writes
NameLen == 4

\* 'a', 'B' and '.'
NameBytes == {97, 66, Dot}

\* a label of n bytes 'a'
LabelOf(n) == [i \in 1 .. n |-> 97]

Names ==
  UNION {Tuples(n, NameBytes) : n \in 0 .. NameLen}
  \cup {WwwExampleComStr,
        LabelOf(63), LabelOf(64),
        \* 64 + 64 + 64 + 62 + 1 = 255 bytes once encoded
        LabelOf(63) \o <<Dot>> \o LabelOf(63) \o <<Dot>> \o LabelOf(63) \o <<Dot>> \o LabelOf(61)}

\* a buffer that has been written before: no byte of it is zero
UsedContent == [i \in 0 .. BufSize - 1 |-> 120]

NameStarts == {0, 1, 20, 300, BufSize - 3, BufSize - 2, BufSize - 1}

NameInit ==
  /\ nm_in \in [name : Names, p : NameStarts, content : {Zeros, UsedContent}]
  /\ nm_pc = "idle"
  /\ nm_w = BufferOf(nm_in.content, nm_in.p)
  /\ nm_r = BufferOf(nm_in.content, nm_in.p)

\* buffer.write_qname(name) with the cursor at p
WriteQname ==
  /\ nm_pc = "idle"
  /\ nm_w' = write_qname(nm_w, nm_in.name)
  /\ nm_pc' = "written"
  /\ UNCHANGED <<nm_in, nm_r>>
  /\ UNCHANGED notName

\* buffer.read_qname(&mut String::new()) with the cursor back at p
ReadQname ==
  /\ nm_pc = "written"
  /\ nm_w.ok
  /\ nm_r' = read_qname(BufferOf(nm_w.buf, nm_in.p), <<>>)
  /\ nm_pc' = "read"
  /\ UNCHANGED <<nm_in, nm_w>>
  /\ UNCHANGED notName

NameNext == WriteQname \/ ReadQname

InitName == NameInit /\ QnameOff /\ QtOff /\ PktOff /\ SrvOff /\ BufOff /\ CodecOff /\ ResOff

SpecName == InitName /\ [][NameNext]_vars

\* the length of the encoding of a name: a length byte and the bytes of
\* every label, and the zero byte
RECURSIVE SumLen(_)
SumLen(labels) ==
  IF labels = <<>> THEN 0 ELSE 1 + Len(Head(labels)) + SumLen(Tail(labels))

EncodedLen(name) == SumLen(split(name)) + 1

LabelsFit(name) == \A i \in 1 .. Len(split(name)) : Len(split(name)[i]) <= 63

\* C8: write_qname("") with the cursor at p < 512 succeeds, writes the one
\* byte 0 at p, changes no other byte and leaves the cursor at p + 1; read
\* back from p the name is the empty string.
EmptyNameOneByte ==
  (nm_pc \in {"written", "read"} /\ nm_in.name = <<>> /\ nm_in.p < BufSize) =>
     /\ nm_w.ok
     /\ nm_w.pos = nm_in.p + 1
     /\ nm_w.buf = [nm_in.content EXCEPT ![nm_in.p] = 0]
     /\ nm_pc = "read" => (nm_r.ok /\ nm_r.val = <<>>)

\* C9: a name of labels of at most 63 ASCII bytes, at most 255 bytes once
\* encoded, written at p into a fresh buffer, is read back from p as its
\* lowercase form, with the cursor left where write_qname left it.
NameRoundTrip ==
  (/\ nm_pc = "read"
   /\ nm_in.content = Zeros
   /\ LabelsFit(nm_in.name)
   /\ EncodedLen(nm_in.name) <= 255) =>
     /\ nm_r.ok
     /\ nm_r.val = to_lowercase(nm_in.name)
     /\ nm_r.pos = nm_w.pos

\* ------------------------------------------------------------------------
\* QueryType
\* ------------------------------------------------------------------------

\* every value of the enum QueryType
QueryTypes ==
  {QueryType_A, QueryType_NS, QueryType_CNAME, QueryType_MX, QueryType_AAAA}
  \cup {QueryType_UNKNOWN(x) : x \in 0 .. 65535}

QtInit ==
  /\ qt \in QueryTypes
  /\ qt_pc = "idle"
  /\ qt_num = 0
  /\ qt_back = QueryType_UNKNOWN(0)

\* qt.to_num()
ToNum ==
  /\ qt_pc = "idle"
  /\ qt_num' = to_num(qt)
  /\ qt_pc' = "num"
  /\ UNCHANGED <<qt, qt_back>>
  /\ UNCHANGED notQt

\* QueryType::from_num(num)
FromNum ==
  /\ qt_pc = "num"
  /\ qt_back' = from_num(qt_num)
  /\ qt_pc' = "back"
  /\ UNCHANGED <<qt, qt_num>>
  /\ UNCHANGED notQt

QtNext == ToNum \/ FromNum

InitQueryType == QtInit /\ QnameOff /\ NameOff /\ PktOff /\ SrvOff /\ BufOff /\ CodecOff /\ ResOff

SpecQueryType == InitQueryType /\ [][QtNext]_vars

\* C10 as stated: from_num(x.to_num()) = x for every QueryType x
QueryTypeRoundTrip == qt_pc = "back" => qt_back = qt

\* the numbers of the named variants
NamedNums == {1, 2, 5, 15, 28}

\* C10 amended: from_num(x.to_num()) = x for every named variant and every
\* UNKNOWN(v) with v not the number of a named variant; UNKNOWN(v) with v in
\* {1, 2, 5, 15, 28} comes back as the named variant of that number.
QueryTypeRoundTripNamed ==
  qt_pc = "back" =>
     /\ (qt.tag = "UNKNOWN" /\ qt.num \in NamedNums) =>
          (qt_back.tag # "UNKNOWN" /\ to_num(qt_back) = qt.num)
     /\ ~(qt.tag = "UNKNOWN" /\ qt.num \in NamedNums) => qt_back = qt

\* AAAA and UNKNOWN(65535) taken through the round trip
UnknownRoundTripped ==
  /\ qt_pc = "back"
  /\ qt = QueryType_UNKNOWN(65535)
  /\ qt_back = qt

\* ------------------------------------------------------------------------
\* A packet written with DnsPacket::write
\* ------------------------------------------------------------------------

\* "a.b", "mail.b" and "ns.b"
NameAB == <<97, Dot, 98>>
NameMailB == <<109, 97, 105, 108, Dot, 98>>
NameNsB == <<110, 115, Dot, 98>>

QuestionA == DnsQuestion_new(NameAB, QueryType_A)
QuestionMX == DnsQuestion_new(NameAB, QueryType_MX)

RecordA == [tag |-> "A", domain |-> NameAB, addr |-> <<93, 184, 216, 34>>, ttl |-> U32(300)]
RecordMX ==
  [tag |-> "MX", domain |-> NameAB, priority |-> 10, host |-> NameMailB, ttl |-> U32(300)]
RecordNS == [tag |-> "NS", domain |-> <<98>>, host |-> NameNsB, ttl |-> U32(86400)]
RecordGlue == [tag |-> "A", domain |-> NameNsB, addr |-> <<199, 43, 135, 53>>, ttl |-> U32(86400)]
RecordAAAA ==
  [tag |-> "AAAA", domain |-> NameAB, addr |-> <<8193, 3512, 0, 0, 0, 0, 0, 1>>, ttl |-> U32(60)]

\* The largest count a header of the scenario holds
MaxCount == 2

\* the packets of the scenario: any four counts over a choice of sections
PacketInputs ==
  {[header |-> [DnsHeader_new EXCEPT !.id = 4660, !.questions = c[1], !.answers = c[2],
                                     !.authoritative_entries = c[3],
                                     !.resource_entries = c[4]],
    questions |-> qs, answers |-> an, authorities |-> au, resources |-> re] :
     c \in [1 .. 4 -> 0 .. MaxCount],
     qs \in {<<>>, <<QuestionA>>, <<QuestionA, QuestionMX>>},
     an \in {<<>>, <<RecordA>>, <<RecordMX, RecordA>>},
     au \in {<<>>, <<RecordNS>>},
     re \in {<<>>, <<RecordGlue, RecordAAAA>>}}

PktInit ==
  /\ pk_in \in PacketInputs
  /\ pk_pc = "idle"
  /\ pk_out = BytePacketBuffer_new

\* packet.write(&mut buffer) on a fresh buffer
PacketWrite ==
  /\ pk_pc = "idle"
  /\ pk_out' = DnsPacket_write(pk_in, pk_out)
  /\ pk_pc' = "written"
  /\ UNCHANGED pk_in
  /\ UNCHANGED notPkt

PktNext == PacketWrite

InitPacket == PktInit /\ QnameOff /\ NameOff /\ QtOff /\ SrvOff /\ BufOff /\ CodecOff /\ ResOff

SpecPacket == InitPacket /\ [][PktNext]_vars

\* the big-endian u16 held by the bytes at `at` and `at + 1`
U16At(b, at) == b[at] * 256 + b[at + 1]

\* the four sections written one after the other from offset 12 on
SectionsFrom12(p) ==
  write_records(p.resources,
    write_records(p.authorities,
      write_records(p.answers,
        write_questions(p.questions, step(BytePacketBuffer_new, 12)))))

\* C3: whatever the counts of p.header were, the header DnsPacket::write puts
\* in the buffer carries the lengths of the four sections of p, and the
\* sections follow it in the order questions, answers, authorities, resources.
WriteSetsCounts ==
  (pk_pc = "written" /\ pk_out.ok) =>
     /\ U16At(pk_out.buf, 4) = Len(pk_in.questions)
     /\ U16At(pk_out.buf, 6) = Len(pk_in.answers)
     /\ U16At(pk_out.buf, 8) = Len(pk_in.authorities)
     /\ U16At(pk_out.buf, 10) = Len(pk_in.resources)
     /\ pk_out.pos = SectionsFrom12(pk_in).pos
     /\ \A i \in 12 .. BufSize - 1 : pk_out.buf[i] = SectionsFrom12(pk_in).buf[i]

\* ------------------------------------------------------------------------
\* The server: main, handle_query, lookup
\* ------------------------------------------------------------------------

\* &buffer.buf[0..buffer.pos]: the datagram sent
Bytes(r) == [i \in 1 .. r.pos |-> r.buf[i - 1]]

\* socket.recv_from(&mut buffer.buf) into a fresh buffer
Received(bytes) == BufferOf(Put(Zeros, 0, bytes), 0)

\* the datagram a well-behaved peer sends for the packet p
Datagram(p) == Bytes(DnsPacket_write(p, BytePacketBuffer_new))

\* a query with the questions qs, the count set to n
Query(id, qs, n) ==
  [DnsPacket_new EXCEPT !.header.id = id, !.header.recursion_desired = TRUE,
                        !.header.questions = n, !.questions = qs]

\* "A.b": the name of a.b with a capital
NameUpper == <<65, Dot, 98>>

\* a header that announces one question, and a name of one label of 64
\* bytes 'a': read_qname accepts the length byte 0x40, write_qname does not
LongLabelQuery ==
  Bytes(write_u16(write_u16(write_u8(write_all(write_u8(
          DnsHeader_write(Query(7, <<>>, 1).header, BytePacketBuffer_new),
          64), LabelOf(64)), 0), 1), 1))

\* a header that announces one question, and a name that is a pointer to itself
CycleQuery ==
  Bytes(write_all(DnsHeader_write(Query(8, <<>>, 1).header, BytePacketBuffer_new), Ptr(12)))

\* a question whose name runs off the end of the buffer: seven labels of 63
\* bytes, then at offset 460 the length byte of one more
CutQuery ==
  Bytes(DnsHeader_write(Query(5, <<>>, 1).header, BytePacketBuffer_new))
  \o <<63>> \o LabelOf(63) \o <<63>> \o LabelOf(63) \o <<63>> \o LabelOf(63)
  \o <<63>> \o LabelOf(63) \o <<63>> \o LabelOf(63) \o <<63>> \o LabelOf(63)
  \o <<63>> \o LabelOf(63) \o <<63>>

\* the queries of well-behaved clients
Queries ==
  {Query(48879, <<QuestionA>>, 1),
   Query(1, <<DnsQuestion_new(NameUpper, QueryType_MX)>>, 1),
   Query(2, <<QuestionA, QuestionMX>>, 2),
   \* no question
   Query(3, <<>>, 0),
   \* a question the header does not count
   Query(4, <<QuestionA>>, 0)}

\* the datagrams the clients send
Requests ==
  {Datagram(p) : p \in Queries}
  \cup {\* fewer than the 12 bytes of a header: the rest of the buffer is zero
        <<190, 239, 1>>,
        LongLabelQuery,
        CycleQuery,
        CutQuery}

Clients == {"192.0.2.1:5353", "192.0.2.2:4000"}

\* a response to the query for a.b
Response(rescode, an, au, re) ==
  [header |-> [DnsHeader_new EXCEPT !.id = 6666, !.response = TRUE,
                                    !.recursion_desired = TRUE,
                                    !.recursion_available = TRUE,
                                    !.rescode = rescode,
                                    !.questions = 1, !.answers = Len(an),
                                    !.authoritative_entries = Len(au),
                                    !.resource_entries = Len(re)],
   questions |-> <<QuestionA>>, answers |-> an, authorities |-> au, resources |-> re]

\* a name of three labels of 63 bytes
LongName == LabelOf(63) \o <<Dot>> \o LabelOf(63) \o <<Dot>> \o LabelOf(63)

\* an A record whose name is a pointer to offset 12
PointerAnswer == Ptr(12) \o <<0, 1, 0, 1>> \o U32(300) \o <<0, 4, 10, 0, 0, 1>>

\* a TXT record (type 16) with 4 bytes of data, the name a pointer to offset 12
TxtAnswer == Ptr(12) \o <<0, 16, 0, 1>> \o U32(300) \o <<0, 4, 3, 97, 98, 99>>

\* a response that holds LongName once and three answers that point at it:
\* written without compression it is longer than 512 bytes
CompressedResponse ==
  Bytes(write_all(
    DnsQuestion_write(DnsQuestion_new(LongName, QueryType_A),
      DnsHeader_write(Response("NOERROR", <<1, 2, 3>>, <<>>, <<>>).header,
                      BytePacketBuffer_new)),
    PointerAnswer \o PointerAnswer \o PointerAnswer))

\* a response with an answer of a type the server does not know
TxtResponse ==
  Bytes(write_all(
    DnsQuestion_write(QuestionA,
      DnsHeader_write(Response("NOERROR", <<1>>, <<>>, <<>>).header, BytePacketBuffer_new)),
    TxtAnswer))

\* the responses of a well-behaved upstream server
Answers ==
  {Response("NOERROR", <<RecordA>>, <<>>, <<>>),
   Response("NOERROR", <<RecordMX>>, <<RecordNS>>, <<RecordGlue>>),
   Response("NOERROR", <<RecordA, RecordAAAA>>, <<>>, <<>>),
   Response("NXDOMAIN", <<>>, <<>>, <<>>),
   Response("REFUSED", <<>>, <<>>, <<>>),
   Response("NOERROR", <<>>, <<RecordNS>>, <<RecordGlue>>)}

\* the datagrams the upstream server sends back
Responses ==
  {Datagram(p) : p \in Answers}
  \cup {TxtResponse,
        CompressedResponse,
        \* datagrams DnsPacket::from_buffer fails on
        CycleQuery,
        CutQuery}

\* The calls of handle_query the scenario runs
MaxRequests == 2

NoQuestion == [some |-> FALSE]
Some(q) == [some |-> TRUE, v |-> q]

\* what is known of the request being handled
NoOutcome ==
  [received |-> FALSE, parsed |-> FALSE, asked |-> FALSE, looked_up |-> "no",
   send_failed |-> FALSE, returned |-> "running"]

SrvInit ==
  /\ pc = "start"
  /\ src = ""
  /\ request = DnsPacket_new
  /\ question = NoQuestion
  /\ packet = DnsPacket_new
  /\ upstream = <<>>
  /\ replies = <<>>
  /\ written = <<>>
  /\ outcome = NoOutcome
  /\ handled = 0
  /\ logged = 0

\* let socket = UdpSocket::bind(("0.0.0.0", 2053))?
Bind ==
  /\ pc = "start"
  /\ \E bound \in BOOLEAN : pc' = IF bound THEN "recv" ELSE "exited"
  /\ UNCHANGED <<src, request, question, packet, upstream, replies, written, outcome, handled,
                 logged>>
  /\ UNCHANGED notSrv

\* `handle_query(&socket)?`: an error ends main
handle_query_returned_exits(result) == IF result = "err" THEN "exited" ELSE "recv"

\* match handle_query(&socket) { Ok(_) => {}, Err(e) => eprintln!(..) } in the
\* loop of main: where main goes on, whatever handle_query returned
handle_query_returned(result) == "recv"

\* the errors printed once handle_query has returned `result`
logged_after(result) == IF result = "err" THEN logged + 1 ELSE logged

\* the reply handle_query starts from
ReplyFor(req) ==
  [DnsPacket_new EXCEPT !.header.id = req.header.id,
                        !.header.recursion_desired = TRUE,
                        !.header.recursion_available = TRUE,
                        !.header.response = TRUE]

\* request.questions.pop()
Pop(v) == IF v = <<>> THEN NoQuestion ELSE Some(v[Len(v)])

\* handle_query from DnsPacket::from_buffer up to the call of lookup, `req` the
\* result of from_buffer: the `?`, the reply packet, request.questions.pop()
request_parsed(from, req) ==
  LET q == Pop(req.val.questions)
  IN
  /\ src' = from
  /\ replies' = <<>>
  /\ written' = <<>>
  /\ upstream' = <<>>
  /\ IF ~req.ok
     THEN /\ pc' = handle_query_returned("err")
          /\ handled' = handled + 1
          /\ logged' = logged_after("err")
          /\ outcome' = [NoOutcome EXCEPT !.received = TRUE, !.returned = "err"]
          /\ UNCHANGED <<request, question, packet>>
     ELSE /\ request' = [req.val EXCEPT !.questions =
                           IF q.some THEN SubSeq(@, 1, Len(@) - 1) ELSE @]
          /\ question' = q
          /\ handled' = handled
          /\ logged' = logged
          /\ outcome' = [NoOutcome EXCEPT !.received = TRUE, !.parsed = TRUE,
                                          !.asked = q.some]
          /\ IF q.some
             THEN /\ packet' = ReplyFor(req.val)
                  /\ pc' = "lookup"
             ELSE /\ packet' = [ReplyFor(req.val) EXCEPT !.header.rescode = "FORMERR"]
                  /\ pc' = "respond"

\* handle_query up to the call of lookup: recv_from, DnsPacket::from_buffer,
\* the reply packet, request.questions.pop()
RecvRequest ==
  /\ pc = "recv"
  /\ handled < MaxRequests
  /\ \E d \in Requests, from \in Clients :
       request_parsed(from, DnsPacket_from_buffer(Received(d)))
  /\ UNCHANGED notSrv

\* socket.recv_from(&mut req_buffer.buf)? fails
RecvError ==
  /\ pc = "recv"
  /\ handled < MaxRequests
  /\ pc' = handle_query_returned("err")
  /\ handled' = handled + 1
  /\ logged' = logged_after("err")
  /\ outcome' = [NoOutcome EXCEPT !.returned = "err"]
  /\ replies' = <<>>
  /\ written' = <<>>
  /\ upstream' = <<>>
  /\ UNCHANGED <<src, request, question, packet>>
  /\ UNCHANGED notSrv

\* the packet lookup builds
LookupQuery(query_name, query_type) ==
  [DnsPacket_new EXCEPT !.header.id = 6666,
                        !.header.questions = 1,
                        !.header.recursion_desired = TRUE,
                        !.questions = <<DnsQuestion_new(query_name, query_type)>>]

\* packet.write(&mut req_buffer)? and socket.send_to(..)? of lookup,
\* `req_buffer` the buffer the query was written to
query_written(bound, sent, query, req_buffer) ==
  /\ written' = IF bound THEN Append(written, [by |-> "lookup", packet |-> query])
                 ELSE written
  /\ IF bound /\ req_buffer.ok /\ sent
     THEN /\ upstream' = Append(upstream, Bytes(req_buffer))
          /\ pc' = "await"
          /\ UNCHANGED <<packet, outcome>>
     ELSE /\ packet' = [packet EXCEPT !.header.rescode = "SERVFAIL"]
          /\ outcome' = [outcome EXCEPT !.looked_up = "err"]
          /\ pc' = "respond"
          /\ UNCHANGED upstream

\* the query packet of lookup written to a fresh buffer
query_built(bound, sent, query) ==
  query_written(bound, sent, query, DnsPacket_write(query, BytePacketBuffer_new))

\* lookup up to recv_from: bind, the query packet, packet.write, send_to.
\* A failure makes lookup return Err and handle_query set SERVFAIL.
LookupSend ==
  /\ pc = "lookup"
  /\ \E bound \in BOOLEAN, sent \in BOOLEAN :
       query_built(bound, sent, LookupQuery(question.v.name, question.v.question_type))
  /\ UNCHANGED <<src, request, question, replies, handled, logged>>
  /\ UNCHANGED notSrv

\* if let Ok(result) = lookup(..) { .. } else { .. } of handle_query, `result`
\* what DnsPacket::from_buffer made of the datagram received
lookup_returned(received, result) ==
  IF received /\ result.ok
  THEN /\ packet' = [packet EXCEPT !.questions = Append(@, question.v),
                                   !.header.rescode = result.val.header.rescode,
                                   !.answers = @ \o result.val.answers,
                                   !.authorities = @ \o result.val.authorities,
                                   !.resources = @ \o result.val.resources]
       /\ outcome' = [outcome EXCEPT !.looked_up = "ok"]
  ELSE /\ packet' = [packet EXCEPT !.header.rescode = "SERVFAIL"]
       /\ outcome' = [outcome EXCEPT !.looked_up = "err"]

\* the rest of lookup and what handle_query does with its result:
\* recv_from, DnsPacket::from_buffer, the sections copied into the reply
LookupRecv ==
  /\ pc = "await"
  /\ \E d \in Responses \cup {<<>>} :
       \* <<>>: recv_from fails
       lookup_returned(d # <<>>, DnsPacket_from_buffer(Received(d)))
  /\ pc' = "respond"
  /\ UNCHANGED <<src, request, question, upstream, replies, written, handled, logged>>
  /\ UNCHANGED notSrv

\* res_buffer.get_range(0, len)? and socket.send_to(data, src)?, `data` the
\* result of get_range
reply_sent(sent, data) ==
  /\ replies' = IF data.ok /\ sent
                THEN Append(replies, [to |-> src, data |-> data.val])
                ELSE replies
  /\ outcome' = [outcome EXCEPT !.send_failed = data.ok /\ ~sent,
                                !.returned = IF data.ok /\ sent THEN "ok" ELSE "err"]

\* packet.write(&mut res_buffer)?, `res_buffer` the buffer written
reply_written(sent, res_buffer) ==
  reply_sent(sent, get_range(res_buffer, 0, res_buffer.pos))

\* the end of handle_query: packet.write, get_range, send_to
Respond ==
  /\ pc = "respond"
  /\ \E sent \in BOOLEAN :
       reply_written(sent, DnsPacket_write(packet, BytePacketBuffer_new))
  /\ written' = Append(written, [by |-> "handle_query", packet |-> packet])
  /\ pc' = handle_query_returned(outcome'.returned)
  /\ handled' = handled + 1
  /\ logged' = logged_after(outcome'.returned)
  /\ UNCHANGED <<src, request, question, packet, upstream>>
  /\ UNCHANGED notSrv

SrvNext == Bind \/ RecvRequest \/ RecvError \/ LookupSend \/ LookupRecv \/ Respond

InitServer == SrvInit /\ QnameOff /\ NameOff /\ QtOff /\ PktOff /\ BufOff /\ CodecOff /\ ResOff

SpecServer == InitServer /\ [][SrvNext]_vars

\* the four counts of the header of p are the lengths of its sections
CountsMatch(p) ==
  /\ p.header.questions = Len(p.questions)
  /\ p.header.answers = Len(p.answers)
  /\ p.header.authoritative_entries = Len(p.authorities)
  /\ p.header.resource_entries = Len(p.resources)

\* C2: in every packet passed to DnsPacket::write, by lookup (the upstream
\* query) and by handle_query (the reply, on every path), the four counts of
\* the header equal the lengths of the four sections at the moment of the write.
WrittenCountsMatch ==
  \A i \in 1 .. Len(written) : CountsMatch(written[i].packet)

\* the rescode a client reads in the header of the datagram `data`
ReplyRescode(data) == DnsHeader_read(Received(data)).val.rescode

\* C4: once handle_query has returned for a datagram it received, and send_to
\* itself did not fail, exactly one reply was sent, to the source address; its
\* rescode is FORMERR if the request was not parsed or held no question, and
\* SERVFAIL if a question was parsed and the lookup failed.
EveryDatagramReplied ==
  (outcome.received /\ outcome.returned # "running" /\ ~outcome.send_failed) =>
     /\ Len(replies) = 1
     /\ replies[1].to = src
     /\ (~outcome.parsed \/ ~outcome.asked) => ReplyRescode(replies[1].data) = "FORMERR"
     /\ (outcome.asked /\ outcome.looked_up = "err") =>
           ReplyRescode(replies[1].data) = "SERVFAIL"

\* handle_query is running: a datagram has been received and not handled yet
Handling == pc \in {"lookup", "await", "respond"}

\* C18: once the socket is bound nothing ends the loop of main: after every
\* return of handle_query, Ok or Err, main is back at receiving the next
\* datagram, each error is logged, and main receives a datagram only when no
\* request is being handled.
ServerKeepsServing ==
  /\ [](Handling <=> (outcome.received /\ outcome.returned = "running"))
  /\ [](pc = "recv" => (outcome.returned # "running" \/ handled = 0))
  /\ [][(pc = "recv" \/ Handling) => (pc' = "recv" \/ Handling')]_vars
  /\ [][handled' # handled =>
          /\ handled' = handled + 1
          /\ pc' = "recv"
          /\ outcome'.returned \in {"ok", "err"}
          /\ logged' = IF outcome'.returned = "err" THEN logged + 1 ELSE logged]_vars
  /\ [][src' # src => ~Handling]_vars

\* a request being handled after main has logged the error of the one before
ServingAfterError == handled = 1 /\ logged = 1 /\ pc = "respond" /\ outcome.looked_up = "ok"

\* ------------------------------------------------------------------------
\* One buffer, any sequence of calls
\* ------------------------------------------------------------------------

\* The calls a scenario makes on the buffer
MaxCalls == 3

\* The entries a section of a packet decoded in a scenario announces
MaxEntries == 4

\* a record of type 16 (TXT), which DnsRecord::read does not know, with the
\* root name, class 1, ttl 300 and a data_len of 600
BigRecord == <<0, 0, 16, 0, 1>> \o U32(300) \o <<2, 88>>

\* a response that announces one answer, the record BigRecord
BigRecordContent ==
  Put(Put(Zeros, 0, Bytes(DnsHeader_write([DnsHeader_new EXCEPT !.response = TRUE,
                                                               !.answers = 1],
                                          BytePacketBuffer_new))),
      12, BigRecord)

\* the first byte of a pointer in the last byte of the buffer
EdgePointerContent == Put(Zeros, BufSize - 1, <<192>>)

\* a query for a.b
QueryContent == Received(Datagram(Query(48879, <<QuestionA>>, 1))).buf

\* what recv_from has put in buf; Zeros is the buffer of BytePacketBuffer::new
BufContents == {Zeros, QueryContent, BigRecordContent, EdgePointerContent}

StepSizes == {1, 12, 300}
SeekTargets == {0, 12, BufSize - 1, BufSize}
GetOffsets == {0, BufSize - 1, BufSize}
Ranges == {<<0, 12>>, <<BufSize - 12, 13>>, <<BufSize, 0>>}
SetOffsets == {0, BufSize - 2, BufSize - 1}
NamesWritten == {NameAB, <<>>, LabelOf(64)}

BufInit ==
  /\ buffer \in {[buf |-> c, pos |-> 0] : c \in BufContents}
  /\ calls = 0
  /\ last = [op |-> "new", ok |-> TRUE]

\* the buffer as a call finds it
Self == BufferOf(buffer.buf, buffer.pos)

\* a call `op` has returned, `r` the buffer it leaves.  The panic of set
\* (index out of bounds) ends the scenario.
Returned(op, r) ==
  /\ buffer' = [buf |-> r.buf, pos |-> r.pos]
  /\ last' = [op |-> op, ok |-> r.ok]
  /\ calls' = IF r.err = "panic" THEN MaxCalls ELSE calls + 1
  /\ UNCHANGED notBuf

Step == calls < MaxCalls /\ \E n \in StepSizes : Returned("step", step(Self, n))

Seek == calls < MaxCalls /\ \E p \in SeekTargets : Returned("seek", seek(Self, p))

Read == calls < MaxCalls /\ Returned("read", read(Self))

ReadU16 == calls < MaxCalls /\ Returned("read_u16", read_u16(Self))

ReadU32 == calls < MaxCalls /\ Returned("read_u32", read_u32(Self))

Get == calls < MaxCalls /\ \E p \in GetOffsets : Returned("get", get(Self, p))

GetRange ==
  calls < MaxCalls /\ \E g \in Ranges : Returned("get_range", get_range(Self, g[1], g[2]))

BufReadQname == calls < MaxCalls /\ Returned("read_qname", read_qname(Self, <<>>))

WriteU8 == calls < MaxCalls /\ Returned("write_u8", write_u8(Self, 255))

WriteU16 == calls < MaxCalls /\ Returned("write_u16", write_u16(Self, 7))

WriteU32 == calls < MaxCalls /\ Returned("write_u32", write_u32(Self, U32(300)))

BufWriteQname ==
  calls < MaxCalls /\ \E n \in NamesWritten : Returned("write_qname", write_qname(Self, n))

SetU16 == calls < MaxCalls /\ \E p \in SetOffsets : Returned("set_u16", set_u16(Self, p, 4))

RecordRead == calls < MaxCalls /\ Returned("DnsRecord::read", DnsRecord_read(Self))

\* the header at the cursor announces at most MaxEntries entries a section
FewEntries ==
  LET h == DnsHeader_read(Self)
  IN  h.ok => /\ h.val.questions <= MaxEntries
              /\ h.val.answers <= MaxEntries
              /\ h.val.authoritative_entries <= MaxEntries
              /\ h.val.resource_entries <= MaxEntries

PacketFromBuffer ==
  /\ calls < MaxCalls
  /\ FewEntries
  /\ Returned("DnsPacket::from_buffer", DnsPacket_from_buffer(Self))

BufNext ==
  \/ Step \/ Seek \/ Read \/ ReadU16 \/ ReadU32 \/ Get \/ GetRange \/ BufReadQname
  \/ WriteU8 \/ WriteU16 \/ WriteU32 \/ BufWriteQname \/ SetU16
  \/ RecordRead \/ PacketFromBuffer

InitBuf == BufInit /\ QnameOff /\ NameOff /\ QtOff /\ PktOff /\ SrvOff /\ CodecOff /\ ResOff

SpecBuf == InitBuf /\ [][BufNext]_vars

\* the calls made of several single-byte reads or writes
CompositeCalls == {"read_u16", "read_u32", "write_u16", "write_u32", "write_qname"}

\* C17: a call of read_u16, read_u32, write_u16, write_u32 or write_qname that
\* fails leaves the 512 bytes of the buffer as they were before the call
\* (only the cursor may have moved).
FailedCallKeepsBytes ==
  [][(last'.op \in CompositeCalls /\ ~last'.ok) => buffer'.buf = buffer.buf]_vars

\* C1: from a fresh buffer, after any sequence of buffer calls and of record
\* and packet decodes, over any content, the cursor is at most 512; every
\* call that returns Ok in particular leaves it at most 512.
CursorWithinBuffer == buffer.pos <= BufSize

\* ------------------------------------------------------------------------
\* A header or a record written with its write and read back with its read
\* ------------------------------------------------------------------------

\* id and the four counts of the headers written
HeaderNumbers == {<<4660, 1, 2, 0, 0>>, <<65535, 65535, 256, 255, 1>>}

\* opcode (a u8) and rescode of the headers written
Codes ==
  {<<0, "NOERROR">>, <<0, "REFUSED">>, <<1, "NXDOMAIN">>, <<5, "NOTIMP">>,
   <<15, "NOERROR">>, <<15, "REFUSED">>, <<16, "FORMERR">>, <<255, "SERVFAIL">>}

\* every choice of the eight flags, over the numbers and the codes
HeaderInputs ==
  {[id |-> n[1],
    recursion_desired |-> f[1], truncated_message |-> f[2],
    authoritative_answer |-> f[3], opcode |-> c[1], response |-> f[4],
    rescode |-> c[2], checking_disabled |-> f[5], authed_data |-> f[6],
    z |-> f[7], recursion_available |-> f[8],
    questions |-> n[2], answers |-> n[3], authoritative_entries |-> n[4],
    resource_entries |-> n[5]] :
     n \in HeaderNumbers, f \in [1 .. 8 -> BOOLEAN], c \in Codes}

\* the names of the records written: "a.b", "A.b", "", "www.example.com", a
\* label of 63 bytes and one of 64
RecordNames == {NameAB, NameUpper, <<>>, WwwExampleComStr, LabelOf(63), LabelOf(64)}

Ttls == {U32(0), U32(300), <<255, 255, 255, 255>>}

RecordInputs ==
  {[tag |-> "A", domain |-> d, addr |-> a, ttl |-> t] :
     d \in RecordNames, a \in {<<93, 184, 216, 34>>, <<255, 255, 255, 255>>}, t \in Ttls}
  \cup {[tag |-> "AAAA", domain |-> d, addr |-> a, ttl |-> t] :
          d \in RecordNames,
          a \in {<<8193, 3512, 0, 0, 0, 0, 0, 1>>,
                 <<65535, 65535, 65535, 65535, 65535, 65535, 65535, 65535>>},
          t \in Ttls}
  \cup {[tag |-> "MX", domain |-> d, priority |-> pr, host |-> h, ttl |-> U32(300)] :
          d \in RecordNames, pr \in {0, 10, 65535}, h \in RecordNames}
  \cup {[tag |-> g, domain |-> d, host |-> h, ttl |-> U32(86400)] :
          g \in {"NS", "CNAME"}, d \in RecordNames, h \in RecordNames}

\* the cursors the records are written at
RecordStarts == {0, 300, 470, 500}

\* the buffer written to: a fresh one, or one that has been written before
BufferBefore(in) == BufferOf(IF in.used THEN UsedContent ELSE Zeros, in.p)

CodecInit ==
  /\ cd_in \in {[kind |-> "header", v |-> h, p |-> 0, used |-> FALSE] : h \in HeaderInputs}
               \cup {[kind |-> "record", v |-> rec, p |-> s, used |-> u] :
                       rec \in RecordInputs, s \in RecordStarts, u \in BOOLEAN}
  /\ cd_pc = "idle"
  /\ cd_w = BufferBefore(cd_in)
  /\ cd_r = BufferBefore(cd_in)

\* header.write(&mut buffer) on a fresh buffer
HeaderWrite ==
  /\ cd_pc = "idle"
  /\ cd_in.kind = "header"
  /\ cd_w' = DnsHeader_write(cd_in.v, cd_w)
  /\ cd_pc' = "written"
  /\ UNCHANGED <<cd_in, cd_r>>
  /\ UNCHANGED notCodec

\* DnsHeader::new().read(&mut buffer) with the cursor back at 0
HeaderRead ==
  /\ cd_pc = "written"
  /\ cd_in.kind = "header"
  /\ cd_w.ok
  /\ cd_r' = DnsHeader_read(BufferOf(cd_w.buf, cd_in.p))
  /\ cd_pc' = "read"
  /\ UNCHANGED <<cd_in, cd_w>>
  /\ UNCHANGED notCodec

\* record.write(&mut buffer) with the cursor at p
RecordWrite ==
  /\ cd_pc = "idle"
  /\ cd_in.kind = "record"
  /\ cd_w' = DnsRecord_write(cd_in.v, cd_w)
  /\ cd_pc' = "written"
  /\ UNCHANGED <<cd_in, cd_r>>
  /\ UNCHANGED notCodec

\* DnsRecord::read(&mut buffer) with the cursor back at p
RecordReadBack ==
  /\ cd_pc = "written"
  /\ cd_in.kind = "record"
  /\ cd_w.ok
  /\ cd_r' = DnsRecord_read(BufferOf(cd_w.buf, cd_in.p))
  /\ cd_pc' = "read"
  /\ UNCHANGED <<cd_in, cd_w>>
  /\ UNCHANGED notCodec

CodecNext == HeaderWrite \/ HeaderRead \/ RecordWrite \/ RecordReadBack

InitCodec == CodecInit /\ QnameOff /\ NameOff /\ QtOff /\ PktOff /\ SrvOff /\ BufOff /\ ResOff

SpecCodec == InitCodec /\ [][CodecNext]_vars

HeaderReadBack == cd_pc = "read" /\ cd_in.kind = "header"

\* C11 as stated: every header, whatever the value of its opcode field, is
\* read back equal to the header written, field by field.
HeaderRoundTrip == HeaderReadBack => (cd_r.ok /\ cd_r.val = cd_in.v)

\* C11 amended: every header whose opcode is one of the 16 values of the
\* 4-bit field (0..15) is written in 12 bytes and read back equal to the
\* header written, field by field.
HeaderRoundTrip4Bit ==
  (HeaderReadBack /\ cd_in.v.opcode <= 15) =>
     /\ cd_w.pos = 12
     /\ cd_r.ok
     /\ cd_r.pos = 12
     /\ cd_r.val = cd_in.v

\* a header with opcode 15 and flags of both bytes set, read back
FullHeaderReadBack ==
  /\ HeaderReadBack
  /\ cd_in.v.opcode = 15
  /\ cd_in.v.rescode = "REFUSED"
  /\ cd_in.v.z /\ cd_in.v.truncated_message /\ ~cd_in.v.response
  /\ cd_in.v.questions = 65535
  /\ cd_r.val = cd_in.v

\* the header of C12: id 0x1234, recursion_desired, response, NOERROR, opcode 0
IsHeader1234(h) ==
  /\ h.id = 4660
  /\ h.recursion_desired /\ h.response
  /\ ~h.truncated_message /\ ~h.authoritative_answer
  /\ ~h.checking_disabled /\ ~h.authed_data /\ ~h.z /\ ~h.recursion_available
  /\ h.opcode = 0
  /\ h.rescode = "NOERROR"

Header1234Written ==
  cd_pc \in {"written", "read"} /\ cd_in.kind = "header" /\ IsHeader1234(cd_in.v)

\* C12 as stated: that header is written as 12 34, then the flags byte 01,
\* then the flags byte 80.
FlagBytes0180 ==
  Header1234Written =>
     /\ cd_w.buf[0] = 18 /\ cd_w.buf[1] = 52
     /\ cd_w.buf[2] = 1
     /\ cd_w.buf[3] = 128

\* C12 amended: that header is written as 12 34, then the flags byte 81
\* (recursion_desired is bit 0 and response bit 7 of the first flags byte),
\* then the flags byte 00.
FlagBytes8100 ==
  Header1234Written =>
     /\ cd_w.ok
     /\ cd_w.buf[0] = 18 /\ cd_w.buf[1] = 52
     /\ cd_w.buf[2] = 129
     /\ cd_w.buf[3] = 0

\* that header written
Header1234Encoded == Header1234Written /\ cd_pc = "written" /\ cd_w.pos = 12

RecordWritten == cd_pc \in {"written", "read"} /\ cd_in.kind = "record" /\ cd_w.ok

\* C13: an A, AAAA or MX record written into a fresh buffer and read back
\* from offset 0 is read as a record equal to the one written, and the read
\* leaves the cursor where the write ended.
RecordRoundTrip ==
  (/\ cd_pc = "read"
   /\ cd_in.kind = "record"
   /\ cd_in.v.tag \in {"A", "AAAA", "MX"}
   /\ cd_in.p = 0
   /\ ~cd_in.used) =>
     /\ cd_r.ok
     /\ cd_r.val = cd_in.v
     /\ cd_r.pos = cd_w.pos

\* the number of bytes write_qname writes for a name
WireLen(name) == write_qname(BytePacketBuffer_new, name).pos

\* the position DnsRecord::write remembers: after the name, the type, the
\* class and the ttl
Remembered(in) == in.p + WireLen(in.v.domain) + 8

\* C19: after a successful DnsRecord::write of an NS, CNAME or MX record at
\* cursor s, the two bytes at the remembered position P hold the number of
\* bytes between P + 2 and the final cursor (for MX the two bytes of the
\* priority and the encoded host name), the value returned is the final
\* cursor minus s, the final cursor is the end of the host name, and no byte
\* outside s .. final cursor - 1 is changed.
LengthPatched ==
  (RecordWritten /\ cd_in.v.tag \in {"NS", "CNAME", "MX"}) =>
     LET P == Remembered(cd_in)
         rdata == (IF cd_in.v.tag = "MX" THEN 2 ELSE 0) + WireLen(cd_in.v.host)
     IN  /\ cd_w.pos = P + 2 + rdata
         /\ U16At(cd_w.buf, P) = cd_w.pos - (P + 2)
         /\ cd_in.v.tag = "MX" => U16At(cd_w.buf, P + 2) = cd_in.v.priority
         /\ cd_w.val = cd_w.pos - cd_in.p
         /\ \A i \in 0 .. BufSize - 1 :
              (i < cd_in.p \/ i >= cd_w.pos) => cd_w.buf[i] = BufferBefore(cd_in).buf[i]

\* an MX record written in the middle of a buffer that was used before
MxPatchedInPlace ==
  /\ RecordWritten
  /\ cd_in.v.tag = "MX"
  /\ cd_in.p = 300
  /\ cd_in.used
  /\ cd_in.v.host = WwwExampleComStr
  /\ U16At(cd_w.buf, Remembered(cd_in)) = 19

\* ------------------------------------------------------------------------
\* The resolver: recursive_lookup and lookup of dns_lookup.rs
\* ------------------------------------------------------------------------

\* "198.41.0.4".parse::<Ipv4Addr>()
RootServer == <<198, 41, 0, 4>>

None == [some |-> FALSE]

\* str::ends_with
ends_with(s, suffix) ==
  Len(suffix) <= Len(s) /\ SubSeq(s, Len(s) - Len(suffix) + 1, Len(s)) = suffix

\* the least number of a set of numbers: the first match of a scan
Least(S) == CHOOSE x \in S : \A y \in S : x <= y

\* the NS records of `authorities` whose domain is a suffix of qname, by index
matching_ns(p, qname) ==
  {i \in 1 .. Len(p.authorities) :
     p.authorities[i].tag = "NS" /\ ends_with(qname, p.authorities[i].domain)}

\* the A records of `resources` whose domain is the host of the NS record i
glue_of(p, i) ==
  {j \in 1 .. Len(p.resources) :
     p.resources[j].tag = "A" /\ p.resources[j].domain = p.authorities[i].host}

\* DnsPacket::get_resolved_ns: the address of the first glue record of the
\* first matching NS record that has one
get_resolved_ns(p, qname) ==
  LET glued == {i \in matching_ns(p, qname) : glue_of(p, i) # {}}
  IN  IF glued = {} THEN None
      ELSE Some(p.resources[Least(glue_of(p, Least(glued)))].addr)

\* DnsPacket::get_unresolved_ns: the host of the first matching NS record
\* without a glue record
get_unresolved_ns(p, qname) ==
  LET bare == {i \in matching_ns(p, qname) : glue_of(p, i) = {}}
  IN  IF bare = {} THEN None ELSE Some(p.authorities[Least(bare)].host)

\* DnsPacket::get_random_a_record: the addresses it may return, those of
\* the A records of `answers`
a_records(p) ==
  {p.answers[j].addr : j \in {k \in 1 .. Len(p.answers) : p.answers[k].tag = "A"}}

\* Ok(packet) and Err(..) of recursive_lookup and lookup
Ok(p) == [ok |-> TRUE, packet |-> p]
Err == [ok |-> FALSE]

\* recursive_lookup(qname, qtype) entered: ns is the root server
recursive_lookup(qname, qtype) ==
  [qname |-> qname, qtype |-> qtype, ns |-> RootServer, pc |-> "query",
   sent |-> FALSE, lookup |-> "none", response |-> None, ret |-> None]

\* return `ret` from the call `f`
return(f, ret) == [f EXCEPT !.pc = "returned", !.ret = Some(ret)]

\* lookup(qname, qtype, server)? where lookup returns Err: the call `f`
\* returns the error
lookup_failed(f) == return([f EXCEPT !.lookup = "failed"], Err)

\* the innermost call
Top == rs_stack[Len(rs_stack)]

\* the calls with the innermost one now `f`
WithTop(f) == [rs_stack EXCEPT ![Len(rs_stack)] = f]

\* the socket bound by lookup lives on after lookup has returned
socket_kept(sockets) == sockets

\* `socket` goes out of scope when lookup returns
socket_dropped(sockets) == sockets - 1

\* NXDOMAIN counts only without answers
no_such_domain_unanswered(response) ==
  response.header.rescode = "NXDOMAIN" /\ response.answers = <<>>

\* if response.header.rescode == ResultCode::NXDOMAIN
no_such_domain(response) == response.header.rescode = "NXDOMAIN"

\* if !response.answers.is_empty() && response.header.rescode == ResultCode::NOERROR
answered(response) ==
  response.answers # <<>> /\ response.header.rescode = "NOERROR"

\* the server is not switched
next_server_kept(ns, new_ns) == ns

\* ns = new_ns
next_server(ns, new_ns) == new_ns

\* www.example.com, example.com, net and a.iana-servers.net
ExampleComStr == SubSeq(WwwExampleComStr, 5, 15)
NetStr == <<110, 101, 116>>
IanaServerStr ==
  <<97, Dot, 105, 97, 110, 97, 45, 115, 101, 114, 118, 101, 114, 115, Dot>> \o NetStr

NsExampleCom == [tag |-> "NS", domain |-> ExampleComStr, host |-> IanaServerStr, ttl |-> U32(86400)]
NsNet == [tag |-> "NS", domain |-> NetStr, host |-> IanaServerStr, ttl |-> U32(86400)]
GlueIana ==
  [tag |-> "A", domain |-> IanaServerStr, addr |-> <<199, 43, 135, 53>>, ttl |-> U32(86400)]
AnswerWww ==
  [tag |-> "A", domain |-> WwwExampleComStr, addr |-> <<93, 184, 216, 34>>, ttl |-> U32(300)]
AnswerCname ==
  [tag |-> "CNAME", domain |-> WwwExampleComStr, host |-> ExampleComStr, ttl |-> U32(300)]

\* what the servers asked may answer
ResolverAnswers ==
  {\* a delegation with glue, and one without
   Response("NOERROR", <<>>, <<NsExampleCom>>, <<GlueIana>>),
   Response("NOERROR", <<>>, <<NsExampleCom>>, <<>>),
   \* a delegation of net to a server in net, without glue
   Response("NOERROR", <<>>, <<NsNet>>, <<>>),
   \* an answer, and an answer without an address
   Response("NOERROR", <<AnswerWww>>, <<>>, <<>>),
   Response("NOERROR", <<AnswerCname>>, <<>>, <<>>),
   \* the name does not exist: alone, and with an answer and a delegation
   Response("NXDOMAIN", <<>>, <<>>, <<>>),
   Response("NXDOMAIN", <<AnswerWww>>, <<NsExampleCom>>, <<GlueIana>>),
   \* nothing at all
   Response("NOERROR", <<>>, <<>>, <<>>),
   \* an error with an answer and a delegation
   Response("REFUSED", <<AnswerWww>>, <<NsExampleCom>>, <<GlueIana>>)}

\* the datagrams received
ResolverResponses == {Datagram(p) : p \in ResolverAnswers} \cup {CycleQuery}

\* The calls of recursive_lookup nested in one another
MaxDepth == 2

ResInit ==
  /\ rs_stack \in {<<recursive_lookup(WwwExampleComStr, QueryType_A)>>,
                   <<recursive_lookup(IanaServerStr, QueryType_MX)>>,
                   \* a name that cannot be encoded
                   <<recursive_lookup(LabelOf(64), QueryType_A)>>}
  /\ rs_sockets = 0
  /\ rs_outstanding = 0
  /\ rs_sent = None
  /\ rs_result = None

Running == Len(rs_stack) > 0

\* let socket = UdpSocket::bind(("0.0.0.0", 42340))? of lookup
LkBind ==
  /\ Running
  /\ Top.pc = "query"
  /\ \E bound \in BOOLEAN :
       IF bound
       THEN /\ rs_sockets' = rs_sockets + 1
            /\ rs_stack' = WithTop([Top EXCEPT !.pc = "bound"])
       ELSE /\ rs_stack' = WithTop(lookup_failed(Top))
            /\ UNCHANGED rs_sockets
  /\ UNCHANGED <<rs_outstanding, rs_sent, rs_result>>
  /\ UNCHANGED notRes

\* packet.write(&mut req_buffer)? and socket.send_to(.., server)? of lookup,
\* `req_buffer` the buffer the query was written to
query_sent(sent, req_buffer) ==
  IF sent /\ req_buffer.ok
  THEN /\ rs_sent' = Some([to |-> <<Top.ns, 53>>, data |-> Bytes(req_buffer)])
       /\ rs_outstanding' = rs_outstanding + 1
       /\ rs_stack' = WithTop([Top EXCEPT !.pc = "sent", !.sent = TRUE])
       /\ UNCHANGED rs_sockets
  ELSE /\ rs_stack' = WithTop(lookup_failed(Top))
       /\ rs_sockets' = socket_dropped(rs_sockets)
       /\ UNCHANGED <<rs_sent, rs_outstanding>>

\* lookup from the query packet to send_to
LkSend ==
  /\ Running
  /\ Top.pc = "bound"
  /\ \E sent \in BOOLEAN :
       query_sent(sent, DnsPacket_write(LookupQuery(Top.qname, Top.qtype), BytePacketBuffer_new))
  /\ UNCHANGED rs_result
  /\ UNCHANGED notRes

\* the loop of recursive_lookup after lookup has returned Ok(response)
after_response(response) ==
  LET f == [Top EXCEPT !.response = Some(response), !.lookup = "ok"]
      resolved == get_resolved_ns(response, Top.qname)
      unresolved == get_unresolved_ns(response, Top.qname)
  IN
  IF answered(response) THEN rs_stack' = WithTop(return(f, Ok(response)))
  ELSE IF no_such_domain(response) THEN rs_stack' = WithTop(return(f, Ok(response)))
  ELSE IF resolved.some
  THEN rs_stack' = WithTop([f EXCEPT !.ns = next_server(f.ns, resolved.v), !.pc = "query"])
  ELSE IF ~unresolved.some THEN rs_stack' = WithTop(return(f, Ok(response)))
  ELSE /\ Len(rs_stack) < MaxDepth
       /\ rs_stack' = Append(WithTop([f EXCEPT !.pc = "nested"]),
                             recursive_lookup(unresolved.v, QueryType_A))

\* socket.recv_from(&mut res_buffer.buf)? and DnsPacket::from_buffer of
\* lookup, `result` what from_buffer made of the datagram
response_received(received, result) ==
  /\ rs_sockets' = socket_dropped(rs_sockets)
  /\ rs_outstanding' = rs_outstanding - 1
  /\ IF received /\ result.ok
     THEN after_response(result.val)
     ELSE rs_stack' = WithTop(lookup_failed(Top))

\* the rest of lookup and of the iteration of the loop of recursive_lookup
LkRecv ==
  /\ Running
  /\ Top.pc = "sent"
  /\ \E d \in ResolverResponses \cup {<<>>} :
       \* <<>>: recv_from fails
       response_received(d # <<>>, DnsPacket_from_buffer(Received(d)))
  /\ UNCHANGED <<rs_sent, rs_result>>
  /\ UNCHANGED notRes

\* the outermost call returns
Return ==
  /\ Len(rs_stack) = 1
  /\ Top.pc = "returned"
  /\ rs_result' = Top.ret
  /\ rs_stack' = <<>>
  /\ UNCHANGED <<rs_sockets, rs_outstanding, rs_sent>>
  /\ UNCHANGED notRes

\* the error of the nested call is dropped and the response held is returned
nested_returned_fallback(caller, ret) ==
  IF ~ret.ok THEN {return(caller, Ok(caller.response.v))}
  ELSE IF a_records(ret.packet) = {} THEN {return(caller, Ok(caller.response.v))}
  ELSE {[caller EXCEPT !.ns = next_server(caller.ns, a), !.pc = "query"] :
          a \in a_records(ret.packet)}

\* let recursive_response = recursive_lookup(&new_ns_name, QueryType::A)?
\* and the end of the loop body, `caller` the call that made the nested one
\* and `ret` what the nested call returned
nested_returned(caller, ret) ==
  IF ~ret.ok THEN {return(caller, Err)}
  ELSE IF a_records(ret.packet) = {} THEN {return(caller, Ok(caller.response.v))}
  ELSE {[caller EXCEPT !.ns = next_server(caller.ns, a), !.pc = "query"] :
          a \in a_records(ret.packet)}

\* a nested call returns to the call that made it
NestedReturn ==
  /\ Len(rs_stack) > 1
  /\ Top.pc = "returned"
  /\ \E f \in nested_returned(rs_stack[Len(rs_stack) - 1], Top.ret.v) :
       rs_stack' = Append(SubSeq(rs_stack, 1, Len(rs_stack) - 2), f)
  /\ UNCHANGED <<rs_sockets, rs_outstanding, rs_sent, rs_result>>
  /\ UNCHANGED notRes

ResNext == LkBind \/ LkSend \/ LkRecv \/ Return \/ NestedReturn

InitRes ==
  ResInit /\ QnameOff /\ NameOff /\ QtOff /\ PktOff /\ SrvOff /\ BufOff /\ CodecOff

SpecRes == InitRes /\ [][ResNext]_vars

\* the program runs on and every query sent is answered or fails
SpecResFair == SpecRes /\ WF_vars(ResNext)

\* a response that ends the call: NXDOMAIN, or NOERROR with an answer
Conclusive(p) ==
  \/ p.header.rescode = "NXDOMAIN"
  \/ p.header.rescode = "NOERROR" /\ p.answers # <<>>

\* C14: a call of recursive_lookup whose latest response has rescode
\* NXDOMAIN (with or without answers), or NOERROR and at least one answer,
\* has returned exactly that response; a call that has returned sends
\* nothing more, and what the outermost call returned is the result.
StopsAtConclusive ==
  /\ [](\A i \in 1 .. Len(rs_stack) :
          (rs_stack[i].response.some /\ Conclusive(rs_stack[i].response.v))
            => /\ rs_stack[i].pc = "returned"
               /\ rs_stack[i].ret = Some(Ok(rs_stack[i].response.v)))
  /\ [][\A i \in 1 .. Len(rs_stack') :
          (i <= Len(rs_stack) /\ rs_stack[i].pc = "returned")
            => (rs_stack'[i].pc = "returned" /\ rs_outstanding' <= rs_outstanding)]_vars
  /\ [][(Len(rs_stack) = 1 /\ Len(rs_stack') = 0) => rs_result' = rs_stack[1].ret]_vars

\* the resolver has returned an NXDOMAIN response that carries an answer
NxdomainWithAnswerReturned ==
  /\ rs_result.some
  /\ rs_result.v.ok
  /\ rs_result.v.packet.header.rescode = "NXDOMAIN"
  /\ rs_result.v.packet.answers # <<>>

\* the latest response of the call f names a server with glue and does not
\* end the call
Delegated(f) ==
  /\ f.response.some
  /\ ~Conclusive(f.response.v)
  /\ get_resolved_ns(f.response.v, f.qname).some

\* C15: a call that has sent nothing yet is about to ask 198.41.0.4; a call
\* whose latest response is not conclusive and for which get_resolved_ns
\* yields an address asks that address next; every query is sent to port 53
\* of the server of the innermost call and carries one question, the qname
\* and qtype of that call, which never change.
ServerSelection ==
  /\ [](\A i \in 1 .. Len(rs_stack) :
          /\ (~rs_stack[i].sent /\ rs_stack[i].pc \in {"query", "bound"})
               => rs_stack[i].ns = RootServer
          /\ (Delegated(rs_stack[i]) /\ rs_stack[i].pc \in {"query", "bound", "sent"})
               => rs_stack[i].ns = get_resolved_ns(rs_stack[i].response.v, rs_stack[i].qname).v)
  /\ [][rs_outstanding' > rs_outstanding
          => /\ rs_sent'.some
             /\ rs_sent'.v.to = <<Top.ns, 53>>
             /\ DnsPacket_from_buffer(Received(rs_sent'.v.data)).val.questions
                  = <<DnsQuestion_new(Top.qname, Top.qtype)>>]_vars
  /\ [][\A i \in 1 .. Len(rs_stack') :
          i <= Len(rs_stack)
            => /\ rs_stack'[i].qname = rs_stack[i].qname
               /\ rs_stack'[i].qtype = rs_stack[i].qtype]_vars

\* after NS example.com -> a.iana-servers.net with the glue 199.43.135.53
\* the query for www.example.com has gone to 199.43.135.53
NextQueryToGlue ==
  /\ Running
  /\ Top.pc = "sent"
  /\ Top.qname = WwwExampleComStr
  /\ Top.response.some
  /\ Top.response.v.header.rescode = "NOERROR"
  /\ Top.response.v.answers = <<>>
  /\ Top.response.v.authorities = <<NsExampleCom>>
  /\ Top.response.v.resources = <<GlueIana>>
  /\ rs_sent = Some([to |-> <<(<<199, 43, 135, 53>>), 53>>,
                     data |-> Datagram(LookupQuery(WwwExampleComStr, QueryType_A))])

\* C16: every call of recursive_lookup eventually returns a packet or an
\* error, whatever the servers answer.
ResolverReturns == <>(rs_result.some)

\* C20: at most one query is outstanding and at most one socket is bound at
\* any time; a socket exists exactly while the innermost call is inside
\* lookup, a query is outstanding only while that lookup waits for the
\* reply, and binding and sending happen only with no query outstanding.
OneQueryAtATime ==
  /\ [](rs_sockets \in {0, 1} /\ rs_outstanding \in {0, 1})
  /\ [](rs_sockets = 1 <=> (Running /\ Top.pc \in {"bound", "sent"}))
  /\ [](rs_outstanding = 1 <=> (Running /\ Top.pc = "sent"))
  /\ [][rs_sockets' > rs_sockets => (rs_sockets = 0 /\ rs_outstanding = 0)]_vars
  /\ [][rs_outstanding' > rs_outstanding => rs_outstanding = 0]_vars

\* the nested call made for an unglued NS host waits for a reply
NestedQueryOutstanding ==
  /\ Len(rs_stack) = 2
  /\ Top.pc = "sent"
  /\ rs_stack[1].pc = "nested"
  /\ rs_sockets = 1
  /\ rs_outstanding = 1

\* the call that made the innermost call
Caller == rs_stack[Len(rs_stack) - 1]

\* the innermost call after the step, when the step left it the innermost
\* one, has returned Ok with a response that is not conclusive
FellBack ==
  /\ Len(rs_stack') > 0
  /\ rs_stack'[Len(rs_stack')].pc = "returned"
  /\ rs_stack'[Len(rs_stack')].ret.v.ok
  /\ ~Conclusive(rs_stack'[Len(rs_stack')].ret.v.packet)

\* C21: a call of recursive_lookup whose lookup has failed has returned the
\* error; when a nested call has returned an error the call that made it
\* returns the error in the same step and sends nothing; and a call returns
\* Ok with a response that is not conclusive only when that response names
\* no unresolved NS host, or when the nested call returned Ok with answers
\* that hold no A record, and then it returns the response it holds.
ErrorsPropagate ==
  /\ [](\A i \in 1 .. Len(rs_stack) :
          rs_stack[i].lookup = "failed"
            => (rs_stack[i].pc = "returned" /\ rs_stack[i].ret = Some(Err)))
  /\ [][(Len(rs_stack) > 1 /\ Top.pc = "returned" /\ ~Top.ret.v.ok)
          => /\ Len(rs_stack') = Len(rs_stack) - 1
             /\ rs_stack'[Len(rs_stack')].pc = "returned"
             /\ rs_stack'[Len(rs_stack')].ret = Some(Err)
             /\ rs_outstanding' = rs_outstanding
             /\ rs_sent' = rs_sent]_vars
  /\ [][(Running /\ Top.pc = "sent" /\ Len(rs_stack') = Len(rs_stack) /\ FellBack)
          => /\ rs_stack'[Len(rs_stack')].ret
                  = Some(Ok(rs_stack'[Len(rs_stack')].response.v))
             /\ ~get_unresolved_ns(rs_stack'[Len(rs_stack')].response.v, Top.qname).some]_vars
  /\ [][(Len(rs_stack) > 1 /\ Top.pc = "returned" /\ FellBack)
          => /\ Top.ret.v.ok
             /\ a_records(Top.ret.v.packet) = {}
             /\ rs_stack'[Len(rs_stack')].ret = Some(Ok(Caller.response.v))]_vars

\* a call that holds a response has returned the error of its nested call
NestedErrorReturned ==
  /\ Len(rs_stack) = 1
  /\ Top.pc = "returned"
  /\ Top.ret = Some(Err)
  /\ Top.lookup = "ok"
  /\ Top.response.some
  /\ get_unresolved_ns(Top.response.v, Top.qname).some

=============================================================================
